---- MODULE Spec2Model ----
(***************************************************************************)
(* MeshMonitor auto-responder scripts (ai.py, sunrise.py, fun.py,          *)
(* commands.py): the paginator split_message and the output stage of       *)
(* main().  A Python str is a sequence of one-character strings.           *)
(***************************************************************************)
EXTENDS Integers, Sequences, FiniteSets, TLC

NL == "\n"
SP == " "

\* ---------------------------------------------------------------- bounds
\* longest text handed to the paginator in SpecSplit
MaxLen == 6
\* largest max_chars handed to the paginator in SpecSplit
MaxChars == 4
\* longest str(e) of an exception raised in main()
MaxErrLen == 189
\* most entries of a command registry handed to get_commands_list
MaxEntries == 3
\* most requests of one geocode_location lookup that are followed
MaxRequests == 4

Alphabet == {"a", SP, NL}

RECURSIVE Texts(_)
Texts(n) ==
    IF n = 0 THEN {<<>>}
    ELSE LET shorter == Texts(n - 1)
         IN  shorter \cup {Append(t, c) : t \in {s \in shorter : Len(s) = n - 1}, c \in Alphabet}

\* ------------------------------------------------------- str primitives
\* str.split(sep) for a one-character separator: never returns an empty list
RECURSIVE split(_, _)
RECURSIVE splitlines(_, _)
splitlines(s, sep) ==
    IF \A i \in 1..Len(s) : s[i] # sep THEN <<s>>
    ELSE LET i == CHOOSE k \in 1..Len(s) : s[k] = sep /\ \A j \in 1..(k - 1) : s[j] # sep
         IN  IF i = Len(s) THEN <<SubSeq(s, 1, i - 1)>>
             ELSE <<SubSeq(s, 1, i - 1)>> \o splitlines(SubSeq(s, i + 1, Len(s)), sep)
split(s, sep) ==
    IF \A i \in 1..Len(s) : s[i] # sep THEN <<s>>
    ELSE LET i == CHOOSE k \in 1..Len(s) : s[k] = sep /\ \A j \in 1..(k - 1) : s[j] # sep
         IN  <<SubSeq(s, 1, i - 1)>> \o split(SubSeq(s, i + 1, Len(s)), sep)

\* sep.join(parts)
RECURSIVE join(_, _)
RECURSIVE joinBare(_, _)
joinBare(parts, sep) ==
    IF Len(parts) = 0 THEN <<>>
    ELSE IF Len(parts) = 1 THEN parts[1]
    ELSE parts[1] \o joinBare(Tail(parts), sep)
join(parts, sep) ==
    IF Len(parts) = 0 THEN <<>>
    ELSE IF Len(parts) = 1 THEN parts[1]
    ELSE parts[1] \o <<sep>> \o join(Tail(parts), sep)

\* ------------------------------------------------------------ paginator
\* len(test_message) <= max_chars  /  len(test_line) <= max_chars
FitsOffByOne(s, max) == Len(s) <= max + 1
Fits(s, max) == Len(s) <= max

\* test_message / test_line of AIBot, FunBot and SunriseBot
TestJoin(current, item, sep) ==
    IF current # <<>> THEN join(Append(current, item), sep) ELSE item

\* if current_line: messages.append(' '.join(current_line))
FlushUnguarded(messages, current, sep) == Append(messages, join(current, sep))
Flush(messages, current, sep) ==
    IF current # <<>> THEN Append(messages, join(current, sep)) ELSE messages

\* the inner loop `for word in words`; yields messages and current_line
RECURSIVE WordLoop(_, _, _, _, _)
WordLoop(words, i, current_line, messages, max) ==
    IF i > Len(words) THEN [messages |-> messages, current_line |-> current_line]
    ELSE LET word == words[i]
             test_line == TestJoin(current_line, word, SP)
         IN  IF Fits(test_line, max)
             THEN WordLoop(words, i + 1, Append(current_line, word), messages, max)
             ELSE WordLoop(words, i + 1, <<word>>, Flush(messages, current_line, SP), max)

\* the outer loop `for line in lines`; yields messages and current_message
RECURSIVE LineLoop(_, _, _, _, _)
LineLoop(lines, i, current_message, messages, max) ==
    IF i > Len(lines) THEN [messages |-> messages, current_message |-> current_message]
    ELSE LET line == lines[i]
             test_message == TestJoin(current_message, line, NL)
         IN  IF Fits(test_message, max)
             THEN LineLoop(lines, i + 1, Append(current_message, line), messages, max)
             ELSE LET flushed == Flush(messages, current_message, NL)
                  IN  IF Len(line) > max
                      THEN LET w == WordLoop(split(line, SP), 1, <<>>, flushed, max)
                           IN  LineLoop(lines, i + 1,
                                        IF w.current_line # <<>>
                                        THEN <<join(w.current_line, SP)>>
                                        ELSE current_message,
                                        w.messages, max)
                      ELSE LineLoop(lines, i + 1, <<line>>, flushed, max)

\* AIBot.split_message = FunBot.split_message = SunriseBot.split_message
split_messageLines(text, max) ==
    IF Len(text) <= max THEN split(text, NL)
    ELSE LET r == LineLoop(split(text, NL), 1, <<>>, <<>>, max)
         IN  Flush(r.messages, r.current_message, NL)
split_message(text, max) ==
    IF Len(text) <= max THEN <<text>>
    ELSE LET r == LineLoop(split(text, NL), 1, <<>>, <<>>, max)
         IN  Flush(r.messages, r.current_message, NL)

\* commands.py: test_message / test_line are always the join
RECURSIVE CommandsTestJoinLeading(_, _, _)
CommandsTestJoinLeading(current, item, sep) ==
    IF current = <<>> THEN <<sep>> \o item
    ELSE current[1] \o <<sep>> \o CommandsTestJoinLeading(Tail(current), item, sep)
CommandsTestJoin(current, item, sep) == join(Append(current, item), sep)

RECURSIVE CommandsWordLoop(_, _, _, _, _)
CommandsWordLoop(words, i, current_line, messages, max) ==
    IF i > Len(words) THEN [messages |-> messages, current_line |-> current_line]
    ELSE LET word == words[i]
             test_line == CommandsTestJoin(current_line, word, SP)
         IN  IF Fits(test_line, max)
             THEN CommandsWordLoop(words, i + 1, Append(current_line, word), messages, max)
             ELSE CommandsWordLoop(words, i + 1, <<word>>, Flush(messages, current_line, SP), max)

RECURSIVE CommandsLineLoop(_, _, _, _, _)
CommandsLineLoop(lines, i, current_message, messages, max) ==
    IF i > Len(lines) THEN [messages |-> messages, current_message |-> current_message]
    ELSE LET line == lines[i]
             test_message == CommandsTestJoin(current_message, line, NL)
         IN  IF Fits(test_message, max)
             THEN CommandsLineLoop(lines, i + 1, Append(current_message, line), messages, max)
             ELSE LET flushed == Flush(messages, current_message, NL)
                  IN  IF Len(line) > max
                      THEN LET w == CommandsWordLoop(split(line, SP), 1, <<>>, flushed, max)
                           IN  CommandsLineLoop(lines, i + 1,
                                        IF w.current_line # <<>>
                                        THEN <<join(w.current_line, SP)>>
                                        ELSE current_message,
                                        w.messages, max)
                      ELSE CommandsLineLoop(lines, i + 1, <<line>>, flushed, max)

\* CommandsBot.split_message
commands_split_message(text, max) ==
    IF Len(text) <= max THEN <<text>>
    ELSE LET r == CommandsLineLoop(split(text, NL), 1, <<>>, <<>>, max)
         IN  Flush(r.messages, r.current_message, NL)

\* ------------------------------------------------------ more str methods
UPPER == <<"A","B","C","D","E","F","G","H","I","J","K","L","M",
           "N","O","P","Q","R","S","T","U","V","W","X","Y","Z">>
LOWER == <<"a","b","c","d","e","f","g","h","i","j","k","l","m",
           "n","o","p","q","r","s","t","u","v","w","x","y","z">>
DIGITS == <<"0","1","2","3","4","5","6","7","8","9">>

LowerChar(c) ==
    IF \E k \in 1..26 : UPPER[k] = c
    THEN LOWER[CHOOSE k \in 1..26 : UPPER[k] = c]
    ELSE c

\* str.lower()
lower(s) == [i \in 1..Len(s) |-> LowerChar(s[i])]

\* the characters str.strip() and str.split() treat as whitespace
IsSpace(c) == c \in {SP, NL, "\t"}

\* str.strip()
strip(s) ==
    IF \A i \in 1..Len(s) : IsSpace(s[i]) THEN <<>>
    ELSE LET first == CHOOSE i \in 1..Len(s) :
                          ~IsSpace(s[i]) /\ \A j \in 1..(i - 1) : IsSpace(s[j])
             last  == CHOOSE i \in 1..Len(s) :
                          ~IsSpace(s[i]) /\ \A j \in (i + 1)..Len(s) : IsSpace(s[j])
         IN  SubSeq(s, first, last)

\* str.startswith(prefix), str.endswith(suffix)
startswith(s, prefix) ==
    Len(prefix) <= Len(s) /\ SubSeq(s, 1, Len(prefix)) = prefix
endswith(s, suffix) ==
    Len(suffix) <= Len(s) /\ SubSeq(s, Len(s) - Len(suffix) + 1, Len(s)) = suffix

\* `c in s`
contains(s, c) == \E i \in 1..Len(s) : s[i] = c

\* s[n:]
from(s, n) == SubSeq(s, n + 1, Len(s))

\* str(i) for a natural number
RECURSIVE str_int(_)
str_int(n) ==
    IF n < 10 THEN <<DIGITS[n + 1]>>
    ELSE str_int(n \div 10) \o <<DIGITS[(n % 10) + 1]>>

\* stand-ins for the two non-ASCII characters of the literals
\* (U+2022 bullet, U+2192 arrow); each is one character, as in Python
BULLET == "*"
ARROW == "^"
QUOTE == "\""
APOS == "'"


\* ------------------------------------------------ literals of the scripts
\* ai.py:213-213 (36 characters)
AI_ERR_NO_QUESTION ==
    <<"P","l","e","a","s","e"," ","p","r","o","v","i","d","e"," ","a"," ","q",
      "u","e","s","t","i","o","n"," ","o","r"," ","p","r","o","m","p","t",".">>

\* ai.py:240-240 (57 characters)
AI_ERR_UNAVAILABLE ==
    <<"A","I"," ","s","e","r","v","i","c","e"," ","u","n","a","v","a","i","l",
      "a","b","l","e","."," ","C","h","e","c","k"," ","O","l","l","a","m","a",
      " ","s","e","r","v","i","c","e"," ","o","r"," ","A","P","I"," ","k","e",
      "y","s",".">>

\* ai.py:294-301 (174 characters)
AI_HELP_TEXT ==
    <<"A","I"," ","A","s","s","i","s","t","a","n","t",":","\n",BULLET," ","a",
      "s","k"," ","{","q","u","e","s","t","i","o","n","}"," ","-"," ","A","s",
      "k"," ","A","I","\n",BULLET," ","a","i"," ","{","p","r","o","m","p","t",
      "}"," ","-"," ","S","a","m","e","\n",BULLET," ","c","h","a","t"," ","{",
      "m","e","s","s","a","g","e","}"," ","-"," ","S","a","m","e","\n","E","x",
      "a","m","p","l","e","s",":","\n",BULLET," ","a","s","k"," ","\"","W","h",
      "a","t"," ","i","s"," ","m","e","s","h","?","\"","\n",BULLET," ","a","i",
      " ","\"","H","o","w"," ","t","o"," ","i","m","p","r","o","v","e"," ","r",
      "a","n","g","e","?","\"","\n","S","e","e"," ","s","c","r","i","p","t"," ",
      "f","o","r"," ","m","o","r","e"," ","d","e","t","a","i","l","s",".">>

\* ai.py:367-374 (197 characters)
AI_USAGE ==
    <<"A","I"," ","A","s","s","i","s","t","a","n","t"," ","r","e","q","u","i",
      "r","e","s"," ","a"," ","q","u","e","s","t","i","o","n",".","\n","U","s",
      "a","g","e",":","\n",BULLET," ","a","s","k"," ","{","q","u","e","s","t",
      "i","o","n","}"," ","-"," ","A","s","k"," ","A","I"," ","a"," ","q","u",
      "e","s","t","i","o","n","\n",BULLET," ","a","i"," ","{","p","r","o","m",
      "p","t","}"," ","-"," ","S","a","m","e"," ","a","s"," ","a","s","k","\n",
      BULLET," ","c","h","a","t"," ","{","m","e","s","s","a","g","e","}"," ",
      "-"," ","S","a","m","e"," ","a","s"," ","a","s","k","\n","E","x","a","m",
      "p","l","e","s",":","\n",BULLET," ","a","s","k"," ","\"","W","h","a","t",
      " ","i","s"," ","m","e","s","h","?","\"","\n",BULLET," ","a","i"," ","\"",
      "H","o","w"," ","t","o"," ","i","m","p","r","o","v","e"," ","r","a","n",
      "g","e","?","\"">>

\* ai.py:383-383 f'Error: ...' (7 characters)
ERROR_PREFIX == <<"E","r","r","o","r",":"," ">>

\* ai.py:394-394 (28 characters)
NO_RESPONSE ==
    <<"E","r","r","o","r",":"," ","N","o"," ","r","e","s","p","o","n","s","e",
      " ","g","e","n","e","r","a","t","e","d">>

\* ai.py:413-413 (34 characters)
FORMAT_FAILED_PREFIX ==
    <<"E","r","r","o","r",":"," ","F","a","i","l","e","d"," ","t","o"," ","f",
      "o","r","m","a","t"," ","r","e","s","p","o","n","s","e",":"," ">>

\* ai.py:418 the response value of the last-resort line
SCRIPT_FAILED ==
    <<"E","r","r","o","r",":"," ","S","c","r","i","p","t"," ","e","x","e","c",
      "u","t","i","o","n"," ","f","a","i","l","e","d">>

\* sunrise.py:357-364 (171 characters)
SUNRISE_HELP_TEXT ==
    <<"S","u","n","r","i","s","e","/","S","u","n","s","e","t"," ","B","o","t",
      ":","\n",BULLET," ","s","u","n","r","i","s","e"," ","{","l","o","c","a",
      "t","i","o","n","}"," ","-"," ","G","e","t"," ","t","i","m","e","s","\n",
      BULLET," ","s","u","n","s","e","t"," ","{","l","o","c","a","t","i","o",
      "n","}"," ","-"," ","S","a","m","e","\n",BULLET," ","d","a","y","l","i",
      "g","h","t"," ","{","l","o","c","a","t","i","o","n","}"," ","-"," ","S",
      "a","m","e","\n","E","x","a","m","p","l","e","s",":","\n",BULLET," ","s",
      "u","n","r","i","s","e"," ","9","0","2","1","0","\n",BULLET," ","s","u",
      "n","s","e","t"," ","N","Y","C","\n","S","e","e"," ","s","c","r","i","p",
      "t"," ","f","o","r"," ","d","e","t","a","i","l","s",".">>

\* sunrise.py:402-409 (181 characters)
SUNRISE_USAGE ==
    <<"S","u","n","r","i","s","e","/","S","u","n","s","e","t"," ","r","e","q",
      "u","i","r","e","s"," ","a"," ","l","o","c","a","t","i","o","n",".","\n",
      "U","s","a","g","e",":","\n",BULLET," ","s","u","n","r","i","s","e"," ",
      "{","l","o","c","a","t","i","o","n","}"," ","-"," ","G","e","t"," ","t",
      "i","m","e","s","\n",BULLET," ","s","u","n","s","e","t"," ","{","l","o",
      "c","a","t","i","o","n","}"," ","-"," ","S","a","m","e","\n",BULLET," ",
      "d","a","y","l","i","g","h","t"," ","{","l","o","c","a","t","i","o","n",
      "}"," ","-"," ","S","a","m","e","\n","E","x","a","m","p","l","e","s",":",
      "\n",BULLET," ","s","u","n","r","i","s","e"," ","9","0","2","1","0","\n",
      BULLET," ","s","u","n","s","e","t"," ","\"","N","e","w"," ","Y","o","r",
      "k",","," ","N","Y","\"">>

\* sunrise.py:421-423 usage reminder appended to a handler error (64 characters)
SUNRISE_ERROR_USAGE ==
    <<"\n","U","s","a","g","e",":"," ","s","u","n","r","i","s","e"," ","{","l",
      "o","c","a","t","i","o","n","}","\n","E","x","a","m","p","l","e","s",":",
      " ","s","u","n","r","i","s","e"," ","9","0","2","1","0",","," ","s","u",
      "n","s","e","t"," ","\"","N","Y","C","\"">>

\* fun.py:174-182 (147 characters)
FUN_HELP_TEXT ==
    <<"F","u","n"," ","B","o","t",":","\n",BULLET," ","t","r","i","v","i","a",
      " ","-"," ","R","a","n","d","o","m"," ","t","r","i","v","i","a","\n",
      BULLET," ","f","a","c","t"," ","-"," ","T","e","c","h"," ","f","a","c",
      "t","\n",BULLET," ","j","o","k","e"," ","-"," ","G","e","t"," ","j","o",
      "k","e","\n",BULLET," ","q","u","o","t","e"," ","-"," ","I","n","s","p",
      "i","r","a","t","i","o","n","\n","E","x","a","m","p","l","e","s",":","\n",
      BULLET," ","t","r","i","v","i","a","\n",BULLET," ","f","a","c","t","\n",
      "S","e","e"," ","s","c","r","i","p","t"," ","f","o","r"," ","m","o","r",
      "e"," ","d","e","t","a","i","l","s",".">>

\* fun.py:223-228 (185 characters)
FUN_NO_COMMAND ==
    <<"E","r","r","o","r",":"," ","C","o","m","m","a","n","d"," ","n","o","t",
      " ","s","p","e","c","i","f","i","e","d",".","\n","C","o","n","f","i","g",
      "u","r","e"," ","t","r","i","g","g","e","r"," ","w","i","t","h"," ","P",
      "A","R","A","M","_","c","o","m","m","a","n","d",":","\n",BULLET," ","t",
      "r","i","v","i","a"," ",ARROW," ","P","A","R","A","M","_","c","o","m","m",
      "a","n","d","=","t","r","i","v","i","a","\n",BULLET," ","f","a","c","t",
      " ",ARROW," ","P","A","R","A","M","_","c","o","m","m","a","n","d","=","f",
      "a","c","t","\n",BULLET," ","j","o","k","e"," ",ARROW," ","P","A","R","A",
      "M","_","c","o","m","m","a","n","d","=","j","o","k","e","\n",BULLET," ",
      "q","u","o","t","e"," ",ARROW," ","P","A","R","A","M","_","c","o","m","m",
      "a","n","d","=","q","u","o","t","e">>

\* fun.py:63-72
FUN_TRIVIA == {
    <<"Q",":"," ","W","h","a","t"," ","d","o","e","s"," ","L","o","R","a"," ",
      "s","t","a","n","d"," ","f","o","r","?"," ","A",":"," ","L","o","n","g",
      " ","R","a","n","g","e"," ","r","a","d","i","o"," ","t","e","c","h","n",
      "o","l","o","g","y",".">>,
    <<"Q",":"," ","W","h","a","t"," ","f","r","e","q","u","e","n","c","y"," ",
      "b","a","n","d"," ","d","o"," ","m","o","s","t"," ","M","e","s","h","t",
      "a","s","t","i","c"," ","n","o","d","e","s"," ","u","s","e","?"," ","A",
      ":"," ","9","1","5"," ","M","H","z"," ","(","U","S",")"," ","o","r"," ",
      "8","6","8"," ","M","H","z"," ","(","E","U",")",".">>,
    <<"Q",":"," ","W","h","a","t"," ","i","s"," ","m","e","s","h"," ","n","e",
      "t","w","o","r","k","i","n","g","?"," ","A",":"," ","A"," ","n","e","t",
      "w","o","r","k"," ","w","h","e","r","e"," ","n","o","d","e","s"," ","r",
      "e","l","a","y"," ","m","e","s","s","a","g","e","s"," ","f","o","r"," ",
      "e","a","c","h"," ","o","t","h","e","r",".">>,
    <<"Q",":"," ","W","h","a","t"," ","i","s"," ","t","h","e"," ","m","a","x",
      " ","r","a","n","g","e"," ","o","f"," ","L","o","R","a","?"," ","A",":",
      " ","U","p"," ","t","o"," ","1","0","+"," ","m","i","l","e","s"," ","l",
      "i","n","e","-","o","f","-","s","i","g","h","t",".">>,
    <<"Q",":"," ","W","h","a","t"," ","d","o","e","s"," ","M","Q","T","T"," ",
      "s","t","a","n","d"," ","f","o","r","?"," ","A",":"," ","M","e","s","s",
      "a","g","e"," ","Q","u","e","u","i","n","g"," ","T","e","l","e","m","e",
      "t","r","y"," ","T","r","a","n","s","p","o","r","t",".">>,
    <<"Q",":"," ","W","h","a","t"," ","i","s"," ","a"," ","h","o","p"," ","i",
      "n"," ","m","e","s","h"," ","n","e","t","w","o","r","k","i","n","g","?",
      " ","A",":"," ","O","n","e"," ","r","e","l","a","y"," ","b","e","t","w",
      "e","e","n"," ","s","o","u","r","c","e"," ","a","n","d"," ","d","e","s",
      "t","i","n","a","t","i","o","n",".">>,
    <<"Q",":"," ","W","h","a","t"," ","i","s"," ","t","h","e"," ","I","S","M",
      " ","b","a","n","d","?"," ","A",":"," ","I","n","d","u","s","t","r","i",
      "a","l",","," ","S","c","i","e","n","t","i","f","i","c",","," ","M","e",
      "d","i","c","a","l"," ","r","a","d","i","o"," ","b","a","n","d"," ","(",
      "u","n","l","i","c","e","n","s","e","d",")",".">>,
    <<"Q",":"," ","W","h","a","t"," ","d","o","e","s"," ","A","P","R","S"," ",
      "s","t","a","n","d"," ","f","o","r","?"," ","A",":"," ","A","u","t","o",
      "m","a","t","i","c"," ","P","a","c","k","e","t"," ","R","e","p","o","r",
      "t","i","n","g"," ","S","y","s","t","e","m",".">>,
    <<"Q",":"," ","W","h","a","t"," ","i","s"," ","p","a","c","k","e","t"," ",
      "r","a","d","i","o","?"," ","A",":"," ","D","i","g","i","t","a","l"," ",
      "d","a","t","a"," ","t","r","a","n","s","m","i","s","s","i","o","n"," ",
      "o","v","e","r"," ","r","a","d","i","o"," ","w","a","v","e","s",".">>,
    <<"Q",":"," ","W","h","a","t"," ","d","o","e","s"," ","R","S","S","I"," ",
      "m","e","a","s","u","r","e","?"," ","A",":"," ","R","e","c","e","i","v",
      "e","d"," ","S","i","g","n","a","l"," ","S","t","r","e","n","g","t","h",
      " ","I","n","d","i","c","a","t","o","r",".">>}

\* fun.py:79-88
FUN_FACTS == {
    <<"M","e","s","h","t","a","s","t","i","c"," ","c","a","n"," ","w","o","r",
      "k"," ","c","o","m","p","l","e","t","e","l","y"," ","o","f","f","l","i",
      "n","e"," ","-"," ","n","o"," ","i","n","t","e","r","n","e","t"," ","r",
      "e","q","u","i","r","e","d","!">>,
    <<"L","o","R","a"," ","c","a","n"," ","t","r","a","n","s","m","i","t"," ",
      "t","h","r","o","u","g","h"," ","o","b","s","t","a","c","l","e","s"," ",
      "b","e","t","t","e","r"," ","t","h","a","n"," ","W","i","F","i"," ","o",
      "r"," ","B","l","u","e","t","o","o","t","h",".">>,
    <<"M","e","s","h"," ","n","e","t","w","o","r","k","s"," ","a","r","e"," ",
      "s","e","l","f","-","h","e","a","l","i","n","g"," ","-"," ","i","f"," ",
      "o","n","e"," ","n","o","d","e"," ","f","a","i","l","s",","," ","o","t",
      "h","e","r","s"," ","r","o","u","t","e"," ","a","r","o","u","n","d"," ",
      "i","t",".">>,
    <<"T","h","e"," ","f","i","r","s","t"," ","p","a","c","k","e","t"," ","r",
      "a","d","i","o"," ","n","e","t","w","o","r","k"," ","w","a","s"," ","c",
      "r","e","a","t","e","d"," ","i","n"," ","t","h","e"," ","1","9","7","0",
      "s"," ","b","y"," ","a","m","a","t","e","u","r"," ","r","a","d","i","o",
      " ","o","p","e","r","a","t","o","r","s",".">>,
    <<"L","o","R","a"," ","u","s","e","s"," ","s","p","r","e","a","d"," ","s",
      "p","e","c","t","r","u","m"," ","m","o","d","u","l","a","t","i","o","n",
      " ","f","o","r"," ","l","o","n","g","-","r","a","n","g","e",","," ","l",
      "o","w","-","p","o","w","e","r"," ","c","o","m","m","u","n","i","c","a",
      "t","i","o","n",".">>,
    <<"M","e","s","h"," ","n","e","t","w","o","r","k","s"," ","c","a","n"," ",
      "s","p","a","n"," ","h","u","n","d","r","e","d","s"," ","o","f"," ","m",
      "i","l","e","s"," ","w","i","t","h"," ","e","n","o","u","g","h"," ","r",
      "e","l","a","y"," ","n","o","d","e","s",".">>,
    <<"M","e","s","h","t","a","s","t","i","c"," ","u","s","e","s"," ","e","n",
      "c","r","y","p","t","i","o","n"," ","t","o"," ","s","e","c","u","r","e",
      " ","a","l","l"," ","m","e","s","s","a","g","e","s"," ","o","n"," ","t",
      "h","e"," ","m","e","s","h",".">>,
    <<"L","o","R","a"," ","d","e","v","i","c","e","s"," ","c","a","n"," ","r",
      "u","n"," ","f","o","r"," ","m","o","n","t","h","s"," ","o","n"," ","b",
      "a","t","t","e","r","y"," ","p","o","w","e","r",".">>,
    <<"T","h","e"," ","9","1","5"," ","M","H","z"," ","b","a","n","d"," ","i",
      "s"," ","s","h","a","r","e","d"," ","w","i","t","h"," ","W","i","F","i",
      ","," ","B","l","u","e","t","o","o","t","h",","," ","a","n","d"," ","o",
      "t","h","e","r"," ","d","e","v","i","c","e","s",".">>,
    <<"M","e","s","h"," ","n","e","t","w","o","r","k","s"," ","a","r","e"," ",
      "u","s","e","d"," ","i","n"," ","d","i","s","a","s","t","e","r"," ","r",
      "e","l","i","e","f"," ","w","h","e","n"," ","i","n","f","r","a","s","t",
      "r","u","c","t","u","r","e"," ","f","a","i","l","s",".">>}

\* fun.py:95-104
FUN_JOKES == {
    <<"W","h","y"," ","d","i","d"," ","t","h","e"," ","m","e","s","h"," ","n",
      "o","d","e"," ","b","r","e","a","k"," ","u","p","?"," ","I","t"," ","c",
      "o","u","l","d","n","'","t"," ","f","i","n","d"," ","a"," ","g","o","o",
      "d"," ","c","o","n","n","e","c","t","i","o","n","!">>,
    <<"W","h","a","t"," ","d","o"," ","y","o","u"," ","c","a","l","l"," ","a",
      " ","m","e","s","h"," ","n","e","t","w","o","r","k"," ","t","h","a","t",
      " ","t","e","l","l","s"," ","j","o","k","e","s","?"," ","A"," ","p","u",
      "n","-","n","e","t","!">>,
    <<"W","h","y"," ","d","o"," ","m","e","s","h"," ","n","o","d","e","s"," ",
      "m","a","k","e"," ","g","o","o","d"," ","f","r","i","e","n","d","s","?",
      " ","T","h","e","y","'","r","e"," ","a","l","w","a","y","s"," ","r","e",
      "l","a","y","i","n","g"," ","m","e","s","s","a","g","e","s","!">>,
    <<"W","h","a","t","'","s"," ","a"," ","m","e","s","h"," ","n","o","d","e",
      "'","s"," ","f","a","v","o","r","i","t","e"," ","s","o","n","g","?"," ",
      "'","I"," ","W","i","l","l"," ","A","l","w","a","y","s"," ","R","o","u",
      "t","e"," ","Y","o","u","'","!">>,
    <<"W","h","y"," ","d","i","d"," ","t","h","e"," ","p","a","c","k","e","t",
      " ","c","r","o","s","s"," ","t","h","e"," ","m","e","s","h","?"," ","T",
      "o"," ","g","e","t"," ","t","o"," ","t","h","e"," ","o","t","h","e","r",
      " ","n","o","d","e","!">>,
    <<"W","h","a","t"," ","d","o"," ","y","o","u"," ","c","a","l","l"," ","a",
      " ","s","l","e","e","p","i","n","g"," ","m","e","s","h"," ","n","e","t",
      "w","o","r","k","?"," ","A"," ","n","a","p","-","n","e","t","!">>,
    <<"W","h","y"," ","a","r","e"," ","m","e","s","h"," ","n","o","d","e","s",
      " ","s","o"," ","r","e","l","i","a","b","l","e","?"," ","T","h","e","y",
      " ","a","l","w","a","y","s"," ","h","o","p"," ","t","o"," ","i","t","!">>,
    <<"W","h","a","t","'","s"," ","a"," ","m","e","s","h"," ","n","o","d","e",
      "'","s"," ","f","a","v","o","r","i","t","e"," ","g","a","m","e","?"," ",
      "H","o","p","s","c","o","t","c","h","!">>,
    <<"W","h","y"," ","d","o","n","'","t"," ","m","e","s","h"," ","n","o","d",
      "e","s"," ","g","e","t"," ","l","o","s","t","?"," ","T","h","e","y"," ",
      "a","l","w","a","y","s"," ","k","n","o","w"," ","t","h","e"," ","r","o",
      "u","t","e","!">>,
    <<"W","h","a","t"," ","d","o"," ","m","e","s","h"," ","n","o","d","e","s",
      " ","s","a","y"," ","w","h","e","n"," ","t","h","e","y"," ","m","e","e",
      "t","?"," ","'","N","i","c","e"," ","t","o"," ","r","e","l","a","y"," ",
      "y","o","u","!","'">>}

\* fun.py:111-120
FUN_QUOTES == {
    <<"T","h","e"," ","n","e","t","w","o","r","k"," ","i","s"," ","t","h","e",
      " ","c","o","m","p","u","t","e","r","."," ","-"," ","J","o","h","n"," ",
      "G","a","g","e">>,
    <<"C","o","m","m","u","n","i","c","a","t","i","o","n"," ","i","s"," ","t",
      "h","e"," ","k","e","y"," ","t","o"," ","u","n","d","e","r","s","t","a",
      "n","d","i","n","g","."," ","-"," ","U","n","k","n","o","w","n">>,
    <<"I","n"," ","a"," ","m","e","s","h"," ","n","e","t","w","o","r","k",",",
      " ","e","v","e","r","y"," ","n","o","d","e"," ","i","s"," ","i","m","p",
      "o","r","t","a","n","t","."," ","-"," ","M","e","s","h"," ","P","h","i",
      "l","o","s","o","p","h","y">>,
    <<"T","h","e"," ","b","e","s","t"," ","n","e","t","w","o","r","k"," ","i",
      "s"," ","o","n","e"," ","t","h","a","t"," ","w","o","r","k","s"," ","w",
      "h","e","n"," ","y","o","u"," ","n","e","e","d"," ","i","t"," ","m","o",
      "s","t","."," ","-"," ","U","n","k","n","o","w","n">>,
    <<"R","a","d","i","o"," ","w","a","v","e","s"," ","c","o","n","n","e","c",
      "t"," ","u","s"," ","a","c","r","o","s","s"," ","d","i","s","t","a","n",
      "c","e","s","."," ","-"," ","H","a","m"," ","R","a","d","i","o"," ","O",
      "p","e","r","a","t","o","r">>,
    <<"A"," ","m","e","s","h"," ","n","e","t","w","o","r","k"," ","i","s"," ",
      "o","n","l","y"," ","a","s"," ","s","t","r","o","n","g"," ","a","s"," ",
      "i","t","s"," ","w","e","a","k","e","s","t"," ","l","i","n","k","."," ",
      "-"," ","N","e","t","w","o","r","k"," ","T","h","e","o","r","y">>,
    <<"T","e","c","h","n","o","l","o","g","y"," ","s","h","o","u","l","d"," ",
      "s","e","r","v","e"," ","h","u","m","a","n","i","t","y",","," ","n","o",
      "t"," ","t","h","e"," ","o","t","h","e","r"," ","w","a","y"," ","a","r",
      "o","u","n","d","."," ","-"," ","U","n","k","n","o","w","n">>,
    <<"T","h","e"," ","i","n","t","e","r","n","e","t"," ","o","f"," ","t","h",
      "i","n","g","s"," ","s","t","a","r","t","s"," ","w","i","t","h"," ","t",
      "h","e"," ","m","e","s","h"," ","o","f"," ","t","h","i","n","g","s",".",
      " ","-"," ","U","n","k","n","o","w","n">>,
    <<"I","n"," ","d","i","s","a","s","t","e","r",","," ","m","e","s","h"," ",
      "n","e","t","w","o","r","k","s"," ","b","e","c","o","m","e"," ","l","i",
      "f","e","l","i","n","e","s","."," ","-"," ","E","m","e","r","g","e","n",
      "c","y"," ","R","e","s","p","o","n","d","e","r">>,
    <<"C","o","n","n","e","c","t","i","v","i","t","y"," ","i","s"," ","a"," ",
      "h","u","m","a","n"," ","r","i","g","h","t","."," ","-"," ","D","i","g",
      "i","t","a","l"," ","R","i","g","h","t","s"," ","A","d","v","o","c","a",
      "t","e">>}

\* commands.py:210-214 (124 characters)
COMMANDS_HELP_TEXT ==
    <<"C","o","m","m","a","n","d","s"," ","B","o","t",":","\n",BULLET," ","c",
      "o","m","m","a","n","d","s"," ","-"," ","L","i","s","t"," ","c","o","m",
      "m","a","n","d","s","\n",BULLET," ","c","o","m","m","a","n","d"," ","-",
      " ","S","a","m","e","\n","N","o","t","e",":"," ","U","s","e"," ","\"","c",
      "o","m","m","a","n","d","s","\""," ","n","o","t"," ","\"","h","e","l","p",
      "\"","\n","S","e","e"," ","s","c","r","i","p","t"," ","t","o"," ","a","d",
      "d"," ","c","u","s","t","o","m"," ","c","o","m","m","a","n","d","s",".">>

\* commands.py:45-103 COMMANDS, in insertion order (the "example" field is never read)
COMMANDS == <<
    [trigger |-> <<"w","e","a","t","h","e","r"," ","{","l","o","c","a","t","i","o","n","}">>,
     desc |-> <<"G","e","t"," ","w","e","a","t","h","e","r"," ","f","o","r"," ","l","o",
         "c","a","t","i","o","n">>],
    [trigger |-> <<"s","u","n","r","i","s","e"," ","{","l","o","c","a","t","i","o","n","}">>,
     desc |-> <<"G","e","t"," ","s","u","n","r","i","s","e","/","s","u","n","s","e","t",
         " ","t","i","m","e","s">>],
    [trigger |-> <<"s","u","n","s","e","t"," ","{","l","o","c","a","t","i","o","n","}">>,
     desc |-> <<"G","e","t"," ","s","u","n","r","i","s","e","/","s","u","n","s","e","t",
         " ","t","i","m","e","s">>],
    [trigger |-> <<"d","a","y","l","i","g","h","t"," ","{","l","o","c","a","t","i","o","n",
         "}">>,
     desc |-> <<"G","e","t"," ","s","u","n","r","i","s","e","/","s","u","n","s","e","t",
         " ","t","i","m","e","s">>],
    [trigger |-> <<"t","r","i","v","i","a">>,
     desc |-> <<"R","a","n","d","o","m"," ","t","r","i","v","i","a"," ","q","u","e","s",
         "t","i","o","n">>],
    [trigger |-> <<"f","a","c","t">>,
     desc |-> <<"I","n","t","e","r","e","s","t","i","n","g"," ","t","e","c","h"," ","f",
         "a","c","t">>],
    [trigger |-> <<"j","o","k","e">>,
     desc |-> <<"G","e","t"," ","a"," ","j","o","k","e">>],
    [trigger |-> <<"q","u","o","t","e">>,
     desc |-> <<"I","n","s","p","i","r","a","t","i","o","n","a","l"," ","q","u","o","t",
         "e">>],
    [trigger |-> <<"a","s","k"," ","{","q","u","e","s","t","i","o","n","}">>,
     desc |-> <<"A","I"," ","a","s","s","i","s","t","a","n","t">>],
    [trigger |-> <<"a","i"," ","{","p","r","o","m","p","t","}">>,
     desc |-> <<"A","I"," ","a","s","s","i","s","t","a","n","t">>],
    [trigger |-> <<"c","h","a","t"," ","{","m","e","s","s","a","g","e","}">>,
     desc |-> <<"A","I"," ","a","s","s","i","s","t","a","n","t">>],
    [trigger |-> <<"c","o","m","m","a","n","d","s">>,
     desc |-> <<"L","i","s","t"," ","a","l","l"," ","c","o","m","m","a","n","d","s">>],
    [trigger |-> <<"c","o","m","m","a","n","d">>,
     desc |-> <<"L","i","s","t"," ","a","l","l"," ","c","o","m","m","a","n","d","s">>]>>

\* commands.py:174
S_commands == <<"c","o","m","m","a","n","d","s">>
\* commands.py:174
S_command == <<"c","o","m","m","a","n","d">>
\* commands.py:176
S_dash == <<" ","-"," ">>
\* commands.py:192
HEADER_PAGE ==
    <<"A","v","a","i","l","a","b","l","e"," ","C","o","m","m","a","n","d","s",
      ":"," ","P","a","g","e"," ">>
\* commands.py:192
HEADER_OF == <<" ","o","f"," ">>
\* commands.py:192
HEADER_MSG == <<" ","(","M","s","g"," ">>
\* commands.py:205
AVAILABLE_COMMANDS ==
    <<"A","v","a","i","l","a","b","l","e"," ","C","o","m","m","a","n","d","s",
      ":","\n">>
\* commands.py:205
NO_COMMANDS ==
    <<"N","o"," ","c","o","m","m","a","n","d","s"," ","a","v","a","i","l","a",
      "b","l","e",".">>
\* ai.py:376
S_help == <<"h","e","l","p">>
\* ai.py:376
S_h == <<"h">>
\* ai.py:376
S_qmark == <<"?">>
\* ai.py:352
S_ask_ == <<"a","s","k"," ">>
\* ai.py:352
S_ai_ == <<"a","i"," ">>
\* ai.py:352
S_chat_ == <<"c","h","a","t"," ">>
\* fun.py:203
S_trivia == <<"t","r","i","v","i","a">>
\* fun.py:203
S_fact == <<"f","a","c","t">>
\* fun.py:203
S_joke == <<"j","o","k","e">>
\* fun.py:203
S_quote == <<"q","u","o","t","e">>
\* sunrise.py:252
COORD_ERROR_HEAD ==
    <<"C","o","u","l","d"," ","n","o","t"," ","f","i","n","d"," ","c","o","o",
      "r","d","i","n","a","t","e","s"," ","f","o","r"," ","l","o","c","a","t",
      "i","o","n",":"," ">>
\* sunrise.py:252-253
COORD_ERROR_TAIL ==
    <<"."," ","T","r","y"," ","u","s","i","n","g"," ","a"," ","5","-","d","i",
      "g","i","t"," ","z","i","p"," ","c","o","d","e"," ","o","r"," ","\"","C",
      "i","t","y",","," ","S","t","a","t","e","\""," ","f","o","r","m","a","t",
      ".">>
\* sunrise.py:270
API_ERROR ==
    <<"S","u","n","r","i","s","e","-","s","u","n","s","e","t"," ","A","P","I",
      " ","r","e","t","u","r","n","e","d"," ","a","n"," ","e","r","r","o","r">>

\* ------------------------------------------------- command directory
\* the part of get_commands_list that builds commands_text
RECURSIVE command_lines(_)
command_lines(commands) ==
    IF commands = <<>> THEN <<>>
    ELSE LET entry == Head(commands)
             rest == command_lines(Tail(commands))
         IN  IF entry.trigger \in {S_commands, S_command} THEN rest
             ELSE <<(<<BULLET, SP>> \o entry.trigger \o S_dash \o entry.desc)>> \o rest

\* header = f"Available Commands: Page {i} of {n} (Msg {i}/{n})"
page_headerSwapped(i, n) ==
    HEADER_PAGE \o str_int(n) \o HEADER_OF \o str_int(i)
        \o HEADER_MSG \o str_int(i) \o <<"/">> \o str_int(n) \o <<")">>
page_header(i, n) ==
    HEADER_PAGE \o str_int(i) \o HEADER_OF \o str_int(n)
        \o HEADER_MSG \o str_int(i) \o <<"/">> \o str_int(n) \o <<")">>

\* the loop `for i, msg in enumerate(messages, 1)`
RECURSIVE numbered_messages(_, _)
numbered_messages(msgs, i) ==
    IF i > Len(msgs) THEN <<>>
    ELSE LET full_msg == page_header(i, Len(msgs)) \o <<NL>> \o msgs[i]
         IN  (IF Len(full_msg) > 199
              THEN commands_split_message(full_msg, 199)
              ELSE <<full_msg>>) \o numbered_messages(msgs, i + 1)

\* a Python value: a str, a list of str, or None
Str(s) == [t |-> "str", v |-> s]
List(l) == [t |-> "list", v |-> l]
None == [t |-> "none", v |-> <<>>]

\* truth value of a Python value (`if response_text`, `if not response`)
Truthy(x) == x.t # "none" /\ x.v # <<>>

\* CommandsBot.get_commands_list
get_commands_list(commands) ==
    LET commands_text == join(command_lines(commands), NL)
        msgs == commands_split_message(commands_text, 199 - 50)
    IN  IF Len(msgs) > 1 THEN List(numbered_messages(msgs, 1))
        ELSE IF msgs # <<>> THEN Str(AVAILABLE_COMMANDS \o msgs[1])
        ELSE Str(NO_COMMANDS)

\* AIBot.get_help, FunBot.get_help, SunriseBot.get_help
get_help(help_text) ==
    LET msgs == split_message(help_text, 199)
    IN  IF Len(msgs) = 1 THEN Str(msgs[1]) ELSE List(msgs)

\* ------------------------------------------------- parameter resolution
\* re.search(r'\{(\w+)\}', trigger_pattern)
IsWordChar(c) ==
    \/ \E k \in 1..26 : UPPER[k] = c \/ LOWER[k] = c
    \/ \E k \in 1..10 : DIGITS[k] = c
    \/ c = "_"

param_match(trigger_pattern) ==
    \E i, j \in 1..Len(trigger_pattern) :
        /\ trigger_pattern[i] = "{"
        /\ trigger_pattern[j] = "}"
        /\ j >= i + 2
        /\ \A k \in (i + 1)..(j - 1) : IsWordChar(trigger_pattern[k])

\* the quote removal that follows every extraction
remove_quotes(q) ==
    IF startswith(q, <<QUOTE>>) /\ endswith(q, <<QUOTE>>) THEN SubSeq(q, 2, Len(q) - 1)
    ELSE IF startswith(q, <<APOS>>) /\ endswith(q, <<APOS>>) THEN SubSeq(q, 2, Len(q) - 1)
    ELSE q

\* original_message[len(trigger_prefix):].strip(), then the quote removal
extractNoQuotes(original_message, prefix) == strip(from(original_message, Len(prefix)))
extract(original_message, prefix) ==
    remove_quotes(strip(from(original_message, Len(prefix))))

\* ai.py: the loop over ['ask ', 'ai ', 'chat ']
ai_fallbackOrEmpty(original_message, question) ==
    LET message_lower == lower(original_message)
    IN  IF startswith(message_lower, S_ask_) THEN extract(original_message, S_ask_)
        ELSE IF startswith(message_lower, S_ai_) THEN extract(original_message, S_ai_)
        ELSE IF startswith(message_lower, S_chat_) THEN extract(original_message, S_chat_)
        ELSE <<>>
ai_fallback(original_message, question) ==
    LET message_lower == lower(original_message)
    IN  IF startswith(message_lower, S_ask_) THEN extract(original_message, S_ask_)
        ELSE IF startswith(message_lower, S_ai_) THEN extract(original_message, S_ai_)
        ELSE IF startswith(message_lower, S_chat_) THEN extract(original_message, S_chat_)
        ELSE question

\* a or b or c, for str values
or3(a, b, c) == IF a # <<>> THEN a ELSE IF b # <<>> THEN b ELSE c

\* ai.py main: question
ai_resolve(env) ==
    LET question == strip(or3(env.PARAM_question, env.PARAM_prompt, env.PARAM_message))
    IN  IF question = <<>> \/ (Len(question) < 3 /\ contains(env.MESSAGE, SP))
        THEN LET original_message == strip(env.MESSAGE)
                 trigger_pattern == strip(env.TRIGGER)
             IN  IF original_message # <<>> /\ trigger_pattern # <<>>
                 THEN LET trigger_prefix ==
                              IF param_match(trigger_pattern)
                              THEN strip(split(trigger_pattern, "{")[1])
                              ELSE IF contains(trigger_pattern, "{")
                                   THEN strip(split(trigger_pattern, "{")[1])
                                   ELSE trigger_pattern
                      IN  IF startswith(lower(original_message), lower(trigger_prefix))
                          THEN extract(original_message, trigger_prefix)
                          ELSE question
                 ELSE IF original_message # <<>>
                      THEN ai_fallback(original_message, question)
                      ELSE question
        ELSE question

\* sunrise.py main: location
sunrise_resolve(env) ==
    LET location == strip(env.PARAM_location)
    IN  IF location = <<>> \/ (Len(location) < 2 /\ contains(env.MESSAGE, SP))
        THEN LET original_message == strip(env.MESSAGE)
                 trigger_pattern == strip(env.TRIGGER)
             IN  IF original_message # <<>> /\ trigger_pattern # <<>>
                    /\ param_match(trigger_pattern)
                 THEN LET trigger_prefix == strip(split(trigger_pattern, "{")[1])
                      IN  IF startswith(lower(original_message), lower(trigger_prefix))
                          THEN extract(original_message, trigger_prefix)
                          ELSE location
                 ELSE location
        ELSE location

\* original_message.split()[0] of a stripped, non-empty message
first_word(s) ==
    IF \A i \in 1..Len(s) : ~IsSpace(s[i]) THEN s
    ELSE SubSeq(s, 1, (CHOOSE i \in 1..Len(s) :
                           IsSpace(s[i]) /\ \A j \in 1..(i - 1) : ~IsSpace(s[j])) - 1)

\* fun.py main: command
fun_resolve(env) ==
    LET command == lower(strip(env.PARAM_command))
    IN  IF command = <<>>
        THEN LET original_message == lower(strip(env.MESSAGE))
             IN  IF original_message # <<>>
                    /\ first_word(original_message) \in {S_trivia, S_fact, S_joke, S_quote}
                 THEN first_word(original_message)
                 ELSE command
        ELSE command

\* commands.py main: command
commands_resolve(env) == lower(strip(env.PARAM_command))

resolve(s, env) ==
    CASE s = "ai" -> ai_resolve(env)
      [] s = "sunrise" -> sunrise_resolve(env)
      [] s = "fun" -> fun_resolve(env)
      [] s = "commands" -> commands_resolve(env)

\* ------------------------------------------------------ content handlers
\* the provider order chosen from self.provider
providersOllamaFirst(provider) == <<"ollama", "openai", "anthropic">>
providers(provider) ==
    CASE provider = "ollama" -> <<"ollama", "openai", "anthropic">>
      [] provider = "openai" -> <<"openai", "ollama", "anthropic">>
      [] provider = "anthropic" -> <<"anthropic", "openai", "ollama">>
      [] OTHER -> <<"ollama", "openai", "anthropic">>

\* the loop `for provider in providers`; replies[p] is what query_<p> returns
RECURSIVE provider_loop(_, _, _, _, _)
provider_loop(order, i, response_text, cfg, replies) ==
    IF i > Len(order) THEN response_text
    ELSE LET provider == order[i]
             answered ==
                 IF provider = "ollama" THEN replies.ollama
                 ELSE IF provider = "openai" /\ cfg.openai_key THEN replies.openai
                 ELSE IF provider = "anthropic" /\ cfg.anthropic_key THEN replies.anthropic
                 ELSE response_text
         IN  IF Truthy(answered) THEN answered
             ELSE provider_loop(order, i + 1, answered, cfg, replies)

\* AIBot.get_ai_response
get_ai_response(question, cfg, replies) ==
    IF question = <<>> \/ strip(question) = <<>>
    THEN [error |-> TRUE, v |-> Str(AI_ERR_NO_QUESTION)]
    ELSE LET response_text == provider_loop(providers(cfg.provider), 1, None, cfg, replies)
         IN  IF ~Truthy(response_text)
             THEN [error |-> TRUE, v |-> Str(AI_ERR_UNAVAILABLE)]
             ELSE [error |-> FALSE, v |-> response_text]

\* question.lower() in ['help', 'h', '?']
IsHelpCaseSensitive(argument) == argument \in {S_help, S_h, S_qmark}
IsHelp(argument) == lower(argument) \in {S_help, S_h, S_qmark}

\* `if isinstance(response, str) and len(response) > 199:` and what follows
PaginateKeepList(response) ==
    IF response.t = "str" /\ Len(response.v) > 199
    THEN List(split_message(response.v, 199))
    ELSE response
Paginate(response) ==
    IF response.t = "str" /\ Len(response.v) > 199
    THEN LET msgs == split_message(response.v, 199)
         IN  IF Len(msgs) = 1 THEN Str(msgs[1]) ELSE List(msgs)
    ELSE response

\* `if not response: response = 'Error: No response generated'`
Ensure(response) == IF ~Truthy(response) THEN Str(NO_RESPONSE) ELSE response

\* output = {'responses': response} if isinstance(response, list)
\*          else {'response': response}
Envelope(response) ==
    IF response.t = "list" THEN [key |-> "responses", value |-> response.v]
    ELSE [key |-> "response", value |-> response.v]

\* error_msg of the outermost handler
OuterErrorMsgUncut(e) == ERROR_PREFIX \o e
OuterErrorMsg(e) ==
    LET error_msg == ERROR_PREFIX \o e
    IN  IF Len(error_msg) > 195 THEN SubSeq(error_msg, 1, 192) \o <<".", ".", ".">>
        ELSE error_msg

\* error_output of the inner handler
FormatFailedBare(output_error) == output_error
FormatFailed(output_error) == FORMAT_FAILED_PREFIX \o output_error

\* print('{"response": "Error: Script execution failed"}')
LastResort == [key |-> "response", value |-> SCRIPT_FAILED]

\* finally: sys.exit(0) -- the status, whether or not an exception is in flight
Finally(in_flight) == 0

\* the statements that write to sys.stdout or sys.stderr; when one of them
\* raised, the text it was writing may still sit in the stream's buffer
StreamWrites ==
    {"t1_print", "t1_flush", "t1_echo", "t2_print", "t2_flush", "t3_print",
     "t3_flush", "o1_print", "o1_flush", "o1_echo", "o1_log", "o2_print",
     "o2_flush"}

\* the statuses the process can end with once main() is left with `status`:
\* the interpreter flushes the standard streams on its way out and ends
\* with 120 instead when that flush fails
InterpreterExit(status, places) ==
    IF places \cap StreamWrites # {} THEN {status, 120} ELSE {status}

\* ------------------------------------------------------------- state
VARIABLES
    text,        \* split_message: argument text
    max_chars,   \* split_message: argument max_chars
    messages,    \* split_message: returned list
    resplit,     \* split_message applied again to one returned chunk
    spc,         \* position of the paginator caller
    script,      \* which of the four scripts runs
    TEST_MODE,   \* module global TEST_MODE
    environ,     \* os.environ: PARAM_*, MESSAGE, TRIGGER
    config,      \* ai.py globals AI_PROVIDER, OPENAI_API_KEY, ANTHROPIC_API_KEY
    pc,          \* position in main()
    argument,    \* question / location / command after resolution
    branch,      \* the dispatcher branch taken
    reply,       \* response as the dispatcher left it, before pagination
    response,    \* main(): response
    exc,         \* str() of the exception bound by the active except clause
    raised,      \* the places of main() that have raised so far
    stdout,      \* lines written to sys.stdout, as JSON objects
    stderr,      \* what was written to sys.stderr
    exit_status, \* process exit status, -1 while running
    registry,    \* CommandsBot.commands, in insertion order
    listing,     \* what get_commands_list returned
    lpc,         \* position of the caller of get_commands_list
    ai_question,    \* get_ai_response: argument question
    ai_config,   \* AIBot: self.provider, self.openai_key, self.anthropic_key
    ai_replies,     \* what query_ollama / query_openai / query_anthropic return
    loop_i,      \* get_ai_response: position in `for provider in providers`
    response_text, \* get_ai_response: response_text
    queried,     \* the providers queried so far, in order
    answer,      \* what get_ai_response returned
    apc,         \* position in get_ai_response
    geo_location,    \* geocode_location: argument location
    requests,    \* geocode_location: requests sent to the geocoding service
    geo_stderr,  \* geocode_location: lines printed to sys.stderr
    coords,      \* what geocode_location returned
    gpc          \* position in geocode_location

splitVars == <<text, max_chars, messages, resplit, spc>>
mainVars == <<script, TEST_MODE, environ, config, pc, argument, branch, reply,
              response, exc, raised, stdout, stderr, exit_status>>
listVars == <<registry, listing, lpc>>
aiVars == <<ai_question, ai_config, ai_replies, loop_i, response_text, queried,
            answer, apc>>
geoVars == <<geo_location, requests, geo_stderr, coords, gpc>>
vars == <<text, max_chars, messages, resplit, spc, script, TEST_MODE, environ,
          config, pc, argument, branch, reply, response, exc, raised, stdout,
          stderr, exit_status, registry, listing, lpc, ai_question, ai_config,
          ai_replies, loop_i, response_text, queried, answer, apc, geo_location,
          requests, geo_stderr, coords, gpc>>

NoResplit == [of |-> 0, result |-> <<>>]

Env(q, p, loc, cmd, msg, trig) ==
    [PARAM_question |-> q, PARAM_prompt |-> p, PARAM_message |-> <<>>,
     PARAM_location |-> loc, PARAM_command |-> cmd, MESSAGE |-> msg, TRIGGER |-> trig]

NoConfig == [provider |-> "ollama", openai_key |-> FALSE, anthropic_key |-> FALSE]

\* main() not running
MainIdle ==
    /\ script = "none"
    /\ TEST_MODE = FALSE
    /\ environ = Env(<<>>, <<>>, <<>>, <<>>, <<>>, <<>>)
    /\ config = NoConfig
    /\ pc = "idle"
    /\ argument = <<>>
    /\ branch = "none"
    /\ reply = None
    /\ response = None
    /\ exc = <<>>
    /\ raised = {}
    /\ stdout = <<>>
    /\ stderr = <<>>
    /\ exit_status = -1

\* get_ai_response not under test
AiIdle ==
    /\ ai_question = <<>>
    /\ ai_config = NoConfig
    /\ ai_replies = [ollama |-> None, openai |-> None, anthropic |-> None]
    /\ loop_i = 0
    /\ response_text = None
    /\ queried = <<>>
    /\ answer = None
    /\ apc = "idle"

\* geocode_location not under test
GeoIdle ==
    /\ geo_location = <<>>
    /\ requests = 0
    /\ geo_stderr = <<>>
    /\ coords = None
    /\ gpc = "idle"

\* get_commands_list not under test
ListIdle ==
    /\ registry = <<>>
    /\ listing = None
    /\ lpc = "idle"

\* split_message not under test
SplitIdle ==
    /\ text = <<>>
    /\ max_chars = 199
    /\ messages = <<>>
    /\ resplit = NoResplit
    /\ spc = "idle"

InitSplit ==
    /\ text \in Texts(MaxLen)
    /\ max_chars \in 1..MaxChars
    /\ messages = <<>>
    /\ resplit = NoResplit
    /\ spc = "call"
    /\ MainIdle
    /\ ListIdle
    /\ AiIdle
    /\ GeoIdle

\* messages = bot.split_message(text, max_chars)
CallSplit ==
    /\ spc = "call"
    /\ messages' = split_message(text, max_chars)
    /\ spc' = "returned"
    /\ UNCHANGED <<text, max_chars, resplit>>
    /\ UNCHANGED mainVars
    /\ UNCHANGED listVars
    /\ UNCHANGED aiVars
    /\ UNCHANGED geoVars

\* bot.split_message(chunk, max_chars) for one chunk of the previous result
Resplit ==
    /\ spc = "returned"
    /\ \E i \in 1..Len(messages) :
          resplit' = [of |-> i, result |-> split_message(messages[i], max_chars)]
    /\ spc' = "resplit"
    /\ UNCHANGED <<text, max_chars, messages>>
    /\ UNCHANGED mainVars
    /\ UNCHANGED listVars
    /\ UNCHANGED aiVars
    /\ UNCHANGED geoVars

NextSplit == CallSplit \/ Resplit

SpecSplit == InitSplit /\ [][NextSplit]_vars

\* ------------------------------------------------------ inputs of main()
\* a text of n characters with the separator sep at every p-th place
GenText(n, p, sep) ==
    [i \in 1..n |-> IF i % p = 0 THEN sep ELSE DIGITS[((i \div p) % 10) + 1]]

\* str(e) of an exception: a text of n characters
ErrText(n) == [i \in 1..n |-> DIGITS[(i % 10) + 1]]
ErrLens == {3} \cup (188..MaxErrLen)
ErrMsgs == {ErrText(n) : n \in ErrLens}

\* what a provider query can return: None, or the JSON value found in the answer
ProviderReplies ==
    {None, Str(<<>>), List(<<<<>>>>),
     Str(GenText(12, 4, SP)),
     Str(GenText(199, 40, SP)),
     Str(GenText(200, 40, SP)),
     Str(GenText(450, 50, NL)),
     Str(GenText(200, 201, SP))}

\* what get_sunrise_sunset can return for a location
SunriseResults(location) ==
    {[error |-> TRUE, v |-> Str(COORD_ERROR_HEAD \o location \o COORD_ERROR_TAIL)],
     [error |-> TRUE, v |-> Str(API_ERROR)],
     [error |-> TRUE, v |-> Str(GenText(140, 35, SP))],
     [error |-> FALSE, v |-> Str(GenText(40, 8, SP))],
     [error |-> FALSE, v |-> Str(GenText(230, 46, SP))]}

Environs(s) ==
    CASE s = "ai" ->
           {Env(<<>>, <<>>, <<>>, <<>>, <<>>, <<>>),
            Env(<<>>, <<"H","e","l","p">>, <<>>, <<>>, <<>>, <<>>),
            Env(<<"w","h","y","?">>, <<>>, <<>>, <<>>, <<"a","s","k"," ","w","h","y","?">>,
                <<"a","s","k"," ","{","q","u","e","s","t","i","o","n","}">>),
            Env(<<>>, <<>>, <<>>, <<>>,
                <<"A","s","k"," ",QUOTE,"h","i"," ","y","o","u",QUOTE>>,
                <<"a","s","k"," ","{","q","u","e","s","t","i","o","n","}">>)}
      [] s = "sunrise" ->
           {Env(<<>>, <<>>, <<>>, <<>>, <<>>, <<>>),
            Env(<<>>, <<>>, <<"?">>, <<>>, <<>>, <<>>),
            Env(<<>>, <<>>, <<"N","Y","C">>, <<>>, <<"s","u","n","r","i","s","e"," ","N","Y","C">>,
                <<"s","u","n","r","i","s","e"," ","{","l","o","c","a","t","i","o","n","}">>),
            Env(<<>>, <<>>, <<"S">>, <<>>,
                <<"s","u","n","s","e","t"," ","S","a","n"," ","J","o","s","e">>,
                <<"s","u","n","s","e","t"," ","{","l","o","c","a","t","i","o","n","}">>)}
      [] s = "fun" ->
           {Env(<<>>, <<>>, <<>>, <<>>, <<>>, <<>>),
            Env(<<>>, <<>>, <<>>, <<"h","e","l","p">>, <<>>, <<>>),
            Env(<<>>, <<>>, <<>>, <<"d","a","n","c","e">>, <<>>, <<>>),
            Env(<<>>, <<>>, <<>>, <<"J","o","k","e">>, <<>>, <<>>),
            Env(<<>>, <<>>, <<>>, <<"f","a","c","t">>, <<>>, <<>>),
            Env(<<>>, <<>>, <<>>, <<"q","u","o","t","e">>, <<>>, <<>>),
            Env(<<>>, <<>>, <<>>, <<>>, <<"T","r","i","v","i","a"," ","n","o","w">>, <<>>)}
      [] s = "commands" ->
           {Env(<<>>, <<>>, <<>>, <<>>, <<>>, <<>>),
            Env(<<>>, <<>>, <<>>, <<"H">>, <<>>, <<>>),
            Env(<<>>, <<>>, <<>>, <<"l","i","s","t">>, <<>>, <<>>)}

Configs(s) ==
    IF s = "ai"
    THEN {NoConfig,
          [provider |-> "anthropic", openai_key |-> TRUE, anthropic_key |-> FALSE]}
    ELSE {NoConfig}

Scripts == {"ai", "sunrise", "fun", "commands"}

InitMain ==
    /\ SplitIdle
    /\ ListIdle
    /\ AiIdle
    /\ GeoIdle
    /\ script \in Scripts
    /\ TEST_MODE \in BOOLEAN
    /\ environ \in Environs(script)
    /\ config \in Configs(script)
    /\ pc = "resolve"
    /\ argument = <<>>
    /\ branch = "none"
    /\ reply = None
    /\ response = None
    /\ exc = <<>>
    /\ raised = {}
    /\ stdout = <<>>
    /\ stderr = <<>>
    /\ exit_status = -1

\* ------------------------------------------------------ main(): upstream
\* the argument is resolved from os.environ
Resolve ==
    /\ pc = "resolve"
    /\ argument' = resolve(script, environ)
    /\ pc' = "dispatch"
    /\ UNCHANGED <<script, TEST_MODE, environ, config, branch, reply, response,
                   exc, raised, stdout, stderr, exit_status>>
    /\ UNCHANGED splitVars
    /\ UNCHANGED listVars
    /\ UNCHANGED aiVars
    /\ UNCHANGED geoVars

\* ai.py: usage, help, or bot.get_ai_response(question)
ai_dispatch(question, cfg, replies) ==
    IF question = <<>> THEN [branch |-> "usage", response |-> Str(AI_USAGE)]
    ELSE IF IsHelp(question) THEN [branch |-> "help", response |-> get_help(AI_HELP_TEXT)]
    ELSE LET result == get_ai_response(question, cfg, replies)
         IN  IF result.error
             THEN [branch |-> "error", response |-> Str(ERROR_PREFIX \o result.v.v)]
             ELSE [branch |-> "ok", response |-> result.v]

\* sunrise.py: usage, help, or bot.get_sunrise_sunset(location)
sunrise_dispatch(location, result) ==
    IF location = <<>> THEN [branch |-> "usage", response |-> Str(SUNRISE_USAGE)]
    ELSE IF IsHelp(location)
         THEN [branch |-> "help", response |-> get_help(SUNRISE_HELP_TEXT)]
    ELSE IF result.error
         THEN [branch |-> "error",
               response |-> Str(ERROR_PREFIX \o result.v.v \o SUNRISE_ERROR_USAGE)]
         ELSE [branch |-> "ok", response |-> result.v]

\* fun.py: help, one of the four tables (random.choice), the no-command
\* message, or help for an unknown command
fun_dispatch(command, choice) ==
    IF command \in {S_help, S_h, S_qmark}
    THEN [branch |-> "help", response |-> get_help(FUN_HELP_TEXT)]
    ELSE IF command \in {S_trivia, S_fact, S_joke, S_quote}
         THEN [branch |-> "ok", response |-> Str(choice)]
    ELSE IF command = <<>> THEN [branch |-> "usage", response |-> Str(FUN_NO_COMMAND)]
    ELSE [branch |-> "unknown", response |-> get_help(FUN_HELP_TEXT)]

fun_table(command) ==
    CASE command = S_trivia -> FUN_TRIVIA
      [] command = S_fact -> FUN_FACTS
      [] command = S_joke -> FUN_JOKES
      [] command = S_quote -> FUN_QUOTES
      [] OTHER -> {<<>>}

\* commands.py: help, the directory, or help for an unknown parameter
commands_dispatch(command) ==
    IF command \in {S_help, S_h, S_qmark}
    THEN [branch |-> "help", response |-> Str(COMMANDS_HELP_TEXT)]
    ELSE IF command = <<>> \/ command \in {S_commands, S_command}
         THEN [branch |-> "ok", response |-> get_commands_list(COMMANDS)]
    ELSE [branch |-> "unknown", response |-> Str(COMMANDS_HELP_TEXT)]

\* the dispatcher decision and the content handler's answer
Dispatch ==
    /\ pc = "dispatch"
    /\ \E d \in
          CASE script = "ai" ->
                 {ai_dispatch(argument, config, r) :
                    r \in [ollama : ProviderReplies, openai : ProviderReplies,
                           anthropic : ProviderReplies]}
            [] script = "sunrise" ->
                 {sunrise_dispatch(argument, r) : r \in SunriseResults(argument)}
            [] script = "fun" ->
                 {fun_dispatch(argument, c) : c \in fun_table(argument)}
            [] script = "commands" -> {commands_dispatch(argument)} :
          /\ branch' = d.branch
          /\ reply' = d.response
          /\ response' = d.response
    /\ pc' = "paginate"
    /\ UNCHANGED <<script, TEST_MODE, environ, config, argument, exc, raised,
                   stdout, stderr, exit_status>>
    /\ UNCHANGED splitVars
    /\ UNCHANGED listVars
    /\ UNCHANGED aiVars
    /\ UNCHANGED geoVars

\* the split of a long response and the 'always have a response' guard
PaginateAndEnsure ==
    /\ pc = "paginate"
    /\ response' =
          CASE script = "ai" ->
                 Ensure(IF branch = "ok" THEN Paginate(response) ELSE response)
            [] script \in {"sunrise", "fun"} -> Ensure(Paginate(response))
            [] script = "commands" -> Ensure(response)
    /\ pc' = "t1_print"
    /\ UNCHANGED <<script, TEST_MODE, environ, config, argument, branch, reply,
                   exc, raised, stdout, stderr, exit_status>>
    /\ UNCHANGED splitVars
    /\ UNCHANGED listVars
    /\ UNCHANGED aiVars
    /\ UNCHANGED geoVars

\* pc moves from `at` to `to` because the statement at `at` raised
Raise(at, label, to) ==
    /\ pc = at
    /\ pc' = to
    /\ raised' = raised \cup {label}
    /\ UNCHANGED <<script, TEST_MODE, environ, config, argument, branch, reply,
                   response, stdout, stderr, exit_status>>
    /\ UNCHANGED splitVars
    /\ UNCHANGED listVars
    /\ UNCHANGED aiVars
    /\ UNCHANGED geoVars

\* pc moves from `at` to `to` after the statement at `at` completed
Step(at, to) ==
    /\ pc = at
    /\ pc' = to
    /\ UNCHANGED <<script, TEST_MODE, environ, config, argument, branch, reply,
                   response, exc, raised, exit_status>>
    /\ UNCHANGED splitVars
    /\ UNCHANGED listVars
    /\ UNCHANGED aiVars
    /\ UNCHANGED geoVars

\* an exception escapes resolution, the handler or pagination and is
\* caught by `except Exception as e`
UpstreamRaises ==
    /\ \E at \in {"resolve", "dispatch", "paginate"} : Raise(at, at, "o1_print")
    /\ exc' \in ErrMsgs

\* ------------------------------------------------- main(): inner output
\* print(json.dumps(output))
Tier1Print ==
    /\ Step("t1_print", "t1_flush")
    /\ stdout' = Append(stdout, Envelope(response))
    /\ UNCHANGED stderr

\* sys.stdout.flush()
Tier1Flush == Step("t1_flush", "t1_echo") /\ UNCHANGED <<stdout, stderr>>

\* if TEST_MODE: print(..., file=sys.stderr)
Tier1Echo ==
    /\ Step("t1_echo", "return")
    /\ stderr' = IF TEST_MODE
                 THEN Append(stderr, [kind |-> "test_output", v |-> response])
                 ELSE stderr
    /\ UNCHANGED stdout

\* json.dumps, print, flush or the stderr echo raised: except Exception as output_error
Tier1Raises ==
    /\ \/ Raise("t1_print", "t1_encode", "t2_print")
       \/ Raise("t1_print", "t1_print", "t2_print")
       \/ Raise("t1_flush", "t1_flush", "t2_print")
       \/ TEST_MODE /\ Raise("t1_echo", "t1_echo", "t2_print")
    /\ exc' \in ErrMsgs

\* print(json.dumps(error_output))
Tier2Print ==
    /\ Step("t2_print", "t2_flush")
    /\ stdout' = Append(stdout, [key |-> "response", value |-> FormatFailed(exc)])
    /\ UNCHANGED stderr

Tier2Flush == Step("t2_flush", "return") /\ UNCHANGED <<stdout, stderr>>

\* the bare except of the inner handler
Tier2Raises ==
    /\ \/ Raise("t2_print", "t2_encode", "t3_print")
       \/ Raise("t2_print", "t2_print", "t3_print")
       \/ Raise("t2_flush", "t2_flush", "t3_print")
    /\ UNCHANGED exc

\* print('{"response": "Error: Script execution failed"}')
Tier3Print ==
    /\ Step("t3_print", "t3_flush")
    /\ stdout' = Append(stdout, LastResort)
    /\ UNCHANGED stderr

Tier3Flush == Step("t3_flush", "return") /\ UNCHANGED <<stdout, stderr>>

\* the last resort of the inner handler raised: the exception leaves the
\* inner try and is caught by `except Exception as e`
Tier3Raises ==
    /\ \/ Raise("t3_print", "t3_print", "o1_print")
       \/ Raise("t3_flush", "t3_flush", "o1_print")
    /\ exc' \in ErrMsgs

\* main() returns and the interpreter exits
Return ==
    /\ pc = "return"
    /\ pc' = "done"
    /\ exit_status' \in InterpreterExit(0, raised)
    /\ UNCHANGED <<script, TEST_MODE, environ, config, argument, branch, reply,
                   response, exc, raised, stdout, stderr>>
    /\ UNCHANGED splitVars
    /\ UNCHANGED listVars
    /\ UNCHANGED aiVars
    /\ UNCHANGED geoVars

\* ------------------------------------------------- main(): outer handler
\* error_msg, output, print(json.dumps(output))
Outer1Print ==
    /\ Step("o1_print", "o1_flush")
    /\ stdout' = Append(stdout, [key |-> "response", value |-> OuterErrorMsg(exc)])
    /\ UNCHANGED stderr

Outer1Flush == Step("o1_flush", "o1_echo") /\ UNCHANGED <<stdout, stderr>>

Outer1Echo ==
    /\ Step("o1_echo", "o1_log")
    /\ stderr' = IF TEST_MODE
                 THEN Append(stderr, [kind |-> "test_error", v |-> Str(OuterErrorMsg(exc))])
                 ELSE stderr
    /\ UNCHANGED stdout

\* print(f'Error in ... script: {str(e)}', file=sys.stderr)
Outer1Log ==
    /\ Step("o1_log", "finally")
    /\ stderr' = Append(stderr, [kind |-> "log", v |-> Str(exc)])
    /\ UNCHANGED stdout

\* the bare except of the outer handler
Outer1Raises ==
    /\ \/ Raise("o1_print", "o1_encode", "o2_print")
       \/ Raise("o1_print", "o1_print", "o2_print")
       \/ Raise("o1_flush", "o1_flush", "o2_print")
       \/ TEST_MODE /\ Raise("o1_echo", "o1_echo", "o2_print")
       \/ Raise("o1_log", "o1_log", "o2_print")
    /\ UNCHANGED exc

Outer2Print ==
    /\ Step("o2_print", "o2_flush")
    /\ stdout' = Append(stdout, LastResort)
    /\ UNCHANGED stderr

Outer2Flush == Step("o2_flush", "finally") /\ UNCHANGED <<stdout, stderr>>

\* the last resort of the outer handler raised; the finally clause runs
\* with that exception in flight
Outer2Raises ==
    /\ \/ Raise("o2_print", "o2_print", "finally")
       \/ Raise("o2_flush", "o2_flush", "finally")
    /\ UNCHANGED exc

\* finally: sys.exit(0)
FinallyExit ==
    /\ pc = "finally"
    /\ pc' = "done"
    /\ exit_status' \in
          InterpreterExit(Finally(raised \cap {"o2_print", "o2_flush"} # {}), raised)
    /\ UNCHANGED <<script, TEST_MODE, environ, config, argument, branch, reply,
                   response, exc, raised, stdout, stderr>>
    /\ UNCHANGED splitVars
    /\ UNCHANGED listVars
    /\ UNCHANGED aiVars
    /\ UNCHANGED geoVars

NextMain ==
    \/ Resolve \/ Dispatch \/ PaginateAndEnsure \/ UpstreamRaises
    \/ Tier1Print \/ Tier1Flush \/ Tier1Echo \/ Tier1Raises
    \/ Tier2Print \/ Tier2Flush \/ Tier2Raises
    \/ Tier3Print \/ Tier3Flush \/ Tier3Raises
    \/ Return
    \/ Outer1Print \/ Outer1Flush \/ Outer1Echo \/ Outer1Log \/ Outer1Raises
    \/ Outer2Print \/ Outer2Flush \/ Outer2Raises
    \/ FinallyExit

SpecMain == InitMain /\ [][NextMain]_vars

\* ------------------------------------------- inputs of the resolver
\* the other letter-case of a character
UpperChar(c) ==
    IF \E k \in 1..26 : LOWER[k] = c
    THEN UPPER[CHOOSE k \in 1..26 : LOWER[k] = c]
    ELSE c

\* every way to write the word w in upper and lower case letters
CaseVariants(w) ==
    {v \in [1..Len(w) -> {LowerChar(w[i]) : i \in 1..Len(w)} \cup
                          {UpperChar(w[i]) : i \in 1..Len(w)}] :
        \A i \in 1..Len(w) : LowerChar(v[i]) = LowerChar(w[i])}

W_ask == <<"a", "s", "k">>
W_sun == <<"s", "u", "n">>
\* PARAM_question / PARAM_prompt / PARAM_location as the host may set it
HostParams ==
    {<<>>, <<"x">>, <<"?">>, <<"h", "i">>, <<"N", "Y", "C">>, <<SP, "x", SP>>}
\* the free-text arguments a user may type after the command word
UserArgs ==
    {<<>>, <<"x">>,
     <<"h", "i", SP, "y", "o", "u">>,
     <<"a", QUOTE, "b", SP, "c">>}
\* the argument as typed: bare, in double quotes, in single quotes
Typed(a, w) == IF w = "bare" THEN a ELSE IF w = "double" THEN <<QUOTE>> \o a \o <<QUOTE>>
               ELSE <<APOS>> \o a \o <<APOS>>

\* the command words a MESSAGE may start with
CommandWords ==
    CaseVariants(W_ask) \cup CaseVariants(W_sun) \cup
    {<<"a", "i">>, <<"C", "h", "a", "t">>, <<"h", "e", "l", "l", "o">>}
\* MESSAGE: nothing, a lone word, or a command word and a typed argument
Messages ==
    {<<>>, W_ask} \cup
    {c \o <<SP>> \o Typed(a, w) :
        c \in CommandWords, a \in UserArgs, w \in {"bare", "double", "single"}}

\* TRIGGER: unset, with a placeholder, without one, and the multi-pattern
\* form the setup instructions of ai.py give
T_ask_question == <<"a", "s", "k", SP, "{", "q", "u", "e", "s", "t", "i", "o", "n", "}">>
T_sun_location == <<"s", "u", "n", SP, "{", "l", "o", "c", "a", "t", "i", "o", "n", "}">>
T_ask_multi == <<"a", "s", "k", ",", SP, "a", "s", "k", SP, "{", "q", "u", "e", "s", "t", "i", "o", "n", ":", ".", "+", "}">>
Triggers == {<<>>, T_ask_question, T_sun_location, W_ask, W_sun, T_ask_multi}

\* the host parameter of the running script, before trimming
HostParam(s, env) ==
    IF s = "ai" THEN or3(env.PARAM_question, env.PARAM_prompt, env.PARAM_message)
    ELSE env.PARAM_location

ResolveEnvirons(s) ==
    IF s = "ai"
    THEN {Env(h, <<>>, <<>>, <<>>, m, t) : h \in HostParams, m \in Messages, t \in Triggers}
         \cup {Env(<<>>, h, <<>>, <<>>, m, T_ask_question) : h \in HostParams, m \in Messages}
    ELSE {Env(<<>>, <<>>, h, <<>>, m, t) : h \in HostParams, m \in Messages, t \in Triggers}

\* main() of ai.py or sunrise.py up to the end of parameter resolution
InitResolve ==
    /\ SplitIdle
    /\ ListIdle
    /\ AiIdle
    /\ GeoIdle
    /\ script \in {"ai", "sunrise"}
    /\ TEST_MODE = FALSE
    /\ environ \in ResolveEnvirons(script)
    /\ config = NoConfig
    /\ pc = "resolve"
    /\ argument = <<>>
    /\ branch = "none"
    /\ reply = None
    /\ response = None
    /\ exc = <<>>
    /\ raised = {}
    /\ stdout = <<>>
    /\ stderr = <<>>
    /\ exit_status = -1

NextResolve == Resolve

SpecResolve == InitResolve /\ [][NextResolve]_vars

\* ------------------------------------- inputs of get_commands_list
Entry(trigger, desc) == [trigger |-> trigger, desc |-> desc]

\* registry entries: short ones, ones that fill half a page, one whose line
\* is longer than a page, two whose description is a single long word (of
\* 170 and of 205 characters), and the entry the listing skips
RegistryPool ==
    {Entry(<<"j", "o", "k", "e">>, <<"G", "e", "t", SP, "a", SP, "j", "o", "k", "e">>),
     Entry(<<"m", "1">>, GenText(60, 7, SP)),
     Entry(<<"m", "2">>, GenText(60, 9, SP)),
     Entry(<<"m", "3">>, GenText(60, 11, SP)),
     Entry(<<"l", "g">>, GenText(160, 8, SP)),
     Entry(<<"w", "d">>, GenText(170, 171, SP)),
     Entry(<<"x", "l">>, GenText(205, 206, SP)),
     Entry(S_commands, <<"L", "i", "s", "t", SP, "a", "l", "l", SP, "c", "o", "m", "m", "a", "n", "d", "s">>)}

\* a dict has no two entries with the same key
Registries ==
    {COMMANDS} \cup
    {r \in UNION {[1..n -> RegistryPool] : n \in 0..MaxEntries} :
        \A i, j \in 1..Len(r) : i # j => r[i].trigger # r[j].trigger}

InitList ==
    /\ registry \in Registries
    /\ listing = None
    /\ lpc = "call"
    /\ SplitIdle
    /\ MainIdle
    /\ AiIdle
    /\ GeoIdle

\* response = bot.get_commands_list()
CallList ==
    /\ lpc = "call"
    /\ listing' = get_commands_list(registry)
    /\ lpc' = "returned"
    /\ UNCHANGED registry
    /\ UNCHANGED splitVars
    /\ UNCHANGED mainVars
    /\ UNCHANGED aiVars
    /\ UNCHANGED geoVars

NextList == CallList

SpecList == InitList /\ [][NextList]_vars

\* ---------------------------------------- inputs of get_ai_response
\* a blank question, as left by the removal of the quotes of `ask " "`, and
\* questions with text
Questions == {<<SP>>, <<"h">>, <<"h", "i">>}

\* AI_PROVIDER is lower-cased on load; "other" stands for any unknown value
ProviderConfigs ==
    [provider : {"ollama", "openai", "anthropic", "other"},
     openai_key : BOOLEAN, anthropic_key : BOOLEAN]

\* each provider fails (None), answers with empty text, or answers with a
\* text of its own
QueryResults ==
    [ollama : {None, Str(<<>>), Str(<<"o">>)},
     openai : {None, Str(<<>>), Str(<<"p">>)},
     anthropic : {None, Str(<<>>), Str(<<"c">>)}]

InitProviders ==
    /\ ai_question \in Questions
    /\ ai_config \in ProviderConfigs
    /\ ai_replies \in QueryResults
    /\ loop_i = 0
    /\ response_text = None
    /\ queried = <<>>
    /\ answer = None
    /\ apc = "call"
    /\ SplitIdle
    /\ MainIdle
    /\ ListIdle
    /\ GeoIdle

\* `if not question or not question.strip(): return {'error': ...}`, then
\* the choice of the provider order and `response_text = None`
GuardQuestion ==
    /\ apc = "call"
    /\ IF ai_question = <<>> \/ strip(ai_question) = <<>>
       THEN /\ answer' = [error |-> TRUE, v |-> Str(AI_ERR_NO_QUESTION)]
            /\ apc' = "returned"
            /\ UNCHANGED loop_i
       ELSE /\ loop_i' = 1
            /\ apc' = "loop"
            /\ UNCHANGED answer
    /\ UNCHANGED <<ai_question, ai_config, ai_replies, response_text, queried>>
    /\ UNCHANGED splitVars
    /\ UNCHANGED mainVars
    /\ UNCHANGED listVars
    /\ UNCHANGED geoVars

\* one pass of `for provider in providers`: the query, when this provider
\* is to be queried, and `if response_text: break`
QueryProvider ==
    /\ apc = "loop"
    /\ loop_i <= Len(providers(ai_config.provider))
    /\ LET provider == providers(ai_config.provider)[loop_i]
           asked == \/ provider = "ollama"
                    \/ provider = "openai" /\ ai_config.openai_key
                    \/ provider = "anthropic" /\ ai_config.anthropic_key
           text_now == IF asked THEN ai_replies[provider] ELSE response_text
       IN  /\ response_text' = text_now
           /\ queried' = IF asked THEN Append(queried, provider) ELSE queried
           /\ IF Truthy(text_now)
              THEN apc' = "after_loop" /\ UNCHANGED loop_i
              ELSE loop_i' = loop_i + 1 /\ UNCHANGED apc
    /\ UNCHANGED <<ai_question, ai_config, ai_replies, answer>>
    /\ UNCHANGED splitVars
    /\ UNCHANGED mainVars
    /\ UNCHANGED listVars
    /\ UNCHANGED geoVars

\* the loop ran out of providers
LoopExhausted ==
    /\ apc = "loop"
    /\ loop_i > Len(providers(ai_config.provider))
    /\ apc' = "after_loop"
    /\ UNCHANGED <<ai_question, ai_config, ai_replies, loop_i, response_text, queried, answer>>
    /\ UNCHANGED splitVars
    /\ UNCHANGED mainVars
    /\ UNCHANGED listVars
    /\ UNCHANGED geoVars

\* `if not response_text: return {'error': ...}` / `return {'response': ...}`
ReturnAnswer ==
    /\ apc = "after_loop"
    /\ answer' = IF ~Truthy(response_text)
                 THEN [error |-> TRUE, v |-> Str(AI_ERR_UNAVAILABLE)]
                 ELSE [error |-> FALSE, v |-> response_text]
    /\ apc' = "returned"
    /\ UNCHANGED <<ai_question, ai_config, ai_replies, loop_i, response_text, queried>>
    /\ UNCHANGED splitVars
    /\ UNCHANGED mainVars
    /\ UNCHANGED listVars
    /\ UNCHANGED geoVars

NextProviders == GuardQuestion \/ QueryProvider \/ LoopExhausted \/ ReturnAnswer

SpecProviders == InitProviders /\ [][NextProviders]_vars

\* ---------------------------------------- inputs of geocode_location
Locations == {<<"x">>, <<"9", "0", "2", "1", "0">>, <<"P", "a", "r", "i", "s">>,
              <<"N", "Y">>}

\* (lat, lng) as geocode_location returns them
Coordinates == {<<0, 0>>, <<48, 2>>}

Tuple(c) == [t |-> "tuple", v |-> c]

InitGeo ==
    /\ geo_location \in Locations
    /\ requests = 0
    /\ geo_stderr = <<>>
    /\ coords = None
    /\ gpc = "request"
    /\ SplitIdle
    /\ MainIdle
    /\ ListIdle
    /\ AiIdle

\* urlopen(req, timeout=10) answers with a result list whose first entry
\* has coordinates: `return (lat, lng)`
GeoFound ==
    /\ gpc = "request"
    /\ requests < MaxRequests
    /\ requests' = requests + 1
    /\ \E c \in Coordinates : coords' = Tuple(c)
    /\ gpc' = "returned"
    /\ UNCHANGED <<geo_location, geo_stderr>>
    /\ UNCHANGED splitVars
    /\ UNCHANGED mainVars
    /\ UNCHANGED listVars
    /\ UNCHANGED aiVars

\* the answer is an empty list: the `if data` is passed over, `return None`
GeoNotFound ==
    /\ gpc = "request"
    /\ requests < MaxRequests
    /\ requests' = requests + 1
    /\ coords' = None
    /\ gpc' = "returned"
    /\ UNCHANGED <<geo_location, geo_stderr>>
    /\ UNCHANGED splitVars
    /\ UNCHANGED mainVars
    /\ UNCHANGED listVars
    /\ UNCHANGED aiVars

\* HTTPError with e.code == 429: the notice on stderr and time.sleep(1)
GeoRateLimited ==
    /\ gpc = "request"
    /\ requests < MaxRequests
    /\ requests' = requests + 1
    /\ geo_stderr' = Append(geo_stderr, [kind |-> "rate_limited", v |-> geo_location])
    /\ gpc' = "sleep"
    /\ UNCHANGED <<geo_location, coords>>
    /\ UNCHANGED splitVars
    /\ UNCHANGED mainVars
    /\ UNCHANGED listVars
    /\ UNCHANGED aiVars

\* `return self.geocode_location(location)`: the lookup starts again
GeoRetry ==
    /\ gpc = "sleep"
    /\ gpc' = "request"
    /\ UNCHANGED <<geo_location, requests, geo_stderr, coords>>
    /\ UNCHANGED splitVars
    /\ UNCHANGED mainVars
    /\ UNCHANGED listVars
    /\ UNCHANGED aiVars

\* HTTPError with another code, or any other exception: a line on stderr
\* and `return None`
GeoFailed ==
    /\ gpc = "request"
    /\ requests < MaxRequests
    /\ requests' = requests + 1
    /\ \E kind \in {"http_error", "error"} :
          geo_stderr' = Append(geo_stderr, [kind |-> kind, v |-> geo_location])
    /\ coords' = None
    /\ gpc' = "returned"
    /\ UNCHANGED geo_location
    /\ UNCHANGED splitVars
    /\ UNCHANGED mainVars
    /\ UNCHANGED listVars
    /\ UNCHANGED aiVars

NextGeo == GeoFound \/ GeoNotFound \/ GeoRateLimited \/ GeoRetry \/ GeoFailed

SpecGeo == InitGeo /\ [][NextGeo]_vars

\* ------------------------------------------------- paginator properties
IsWord(s) == \A i \in 1..Len(s) : s[i] # SP /\ s[i] # NL

\* C1: every chunk returned by split_message(text, max_chars) has length
\* <= max_chars unless the chunk is a single word (no space, no newline)
\* that is itself longer than max_chars.
C1_ChunkWithinLimit ==
    spc # "call" =>
        \A i \in 1..Len(messages) :
            Len(messages[i]) <= max_chars \/ IsWord(messages[i])

\* a split into several chunks holding both a full multi-word chunk and an
\* oversized single word
C1_Witness ==
    /\ spc = "returned"
    /\ Len(text) > max_chars
    /\ \E i \in 1..Len(messages) :
          Len(messages[i]) = max_chars /\ ~IsWord(messages[i])
    /\ \E j \in 1..Len(messages) : Len(messages[j]) > max_chars

\* C2: for a non-empty text split_message returns a non-empty list none of
\* whose elements is the empty string.
C2_NoEmptyChunk ==
    (spc # "call" /\ text # <<>>) =>
        /\ messages # <<>>
        /\ \A i \in 1..Len(messages) : messages[i] # <<>>

\* C3: split_message applied to any chunk of a previous result, with the
\* same max_chars, returns exactly that chunk.
C3_Idempotent ==
    spc = "resplit" => resplit.result = <<messages[resplit.of]>>

\* an oversized single-word chunk of a multi-chunk result has been re-split
C3_Witness ==
    /\ spc = "resplit"
    /\ Len(messages) > 1
    /\ Len(messages[resplit.of]) > max_chars

\* C11: a text no longer than max_chars comes back as the one-element list
\* [text], unchanged: not trimmed and not split at its newlines.
C11_ShortTextUnchanged ==
    (spc # "call" /\ Len(text) <= max_chars) => messages = <<text>>

\* a short text with a leading space and a newline inside came back whole
C11_Witness ==
    /\ spc = "returned"
    /\ Len(text) <= max_chars
    /\ Len(text) > 2
    /\ text[1] = SP
    /\ \E i \in 1..Len(text) : text[i] = NL
    /\ messages = <<text>>

\* no line of the text is longer than max_chars
NoLongLine(t, max) ==
    LET lines == split(t, NL) IN \A i \in 1..Len(lines) : Len(lines[i]) <= max

\* C12: when no single line of the text is longer than max_chars, joining
\* the chunks with a newline, in order, gives back the text exactly.
C12_LineJoinRoundTrip ==
    (spc # "call" /\ NoLongLine(text, max_chars)) => join(messages, NL) = text

\* a text longer than max_chars was split at newlines only, into several
\* chunks of which one holds more than one line
C12_Witness ==
    /\ spc = "returned"
    /\ Len(text) > max_chars
    /\ NoLongLine(text, max_chars)
    /\ Len(messages) > 1
    /\ \E i \in 1..Len(messages) : \E k \in 1..Len(messages[i]) : messages[i][k] = NL
    /\ join(messages, NL) = text

\* the place in the text where the k-th chunk starts when one separator
\* character stands between consecutive chunks
RECURSIVE ChunkStart(_, _)
ChunkStart(msgs, k) ==
    IF k = 1 THEN 1 ELSE ChunkStart(msgs, k - 1) + Len(msgs[k - 1]) + 1

RECURSIVE TotalLen(_)
TotalLen(msgs) == IF msgs = <<>> THEN 0 ELSE Len(Head(msgs)) + TotalLen(Tail(msgs))

\* C24: for a text longer than max_chars no content is lost or invented:
\* the chunk lengths plus one per gap add up to len(text), the chunks are
\* the parts of the text in order, and the one character left out between
\* two consecutive chunks is a space or a newline.
C24_NoContentLost ==
    (spc # "call" /\ Len(text) > max_chars) =>
        /\ TotalLen(messages) + Len(messages) - 1 = Len(text)
        /\ \A k \in 1..Len(messages) :
              LET from_k == ChunkStart(messages, k)
              IN  SubSeq(text, from_k, from_k + Len(messages[k]) - 1) = messages[k]
        /\ \A k \in 2..Len(messages) :
              text[ChunkStart(messages, k) - 1] \in {SP, NL}

\* a text cut into three chunks or more, at a space and at a newline
C24_Witness ==
    /\ spc = "returned"
    /\ Len(text) > max_chars
    /\ Len(messages) >= 3
    /\ TotalLen(messages) + Len(messages) - 1 = Len(text)
    /\ \E k \in 2..Len(messages) : text[ChunkStart(messages, k) - 1] = SP
    /\ \E k \in 2..Len(messages) : text[ChunkStart(messages, k) - 1] = NL

\* C25: CommandsBot.split_message returns the same list as the
\* split_message of AIBot, FunBot and SunriseBot, for every text and
\* max_chars.
C25_CopiesAgree ==
    spc # "call" => commands_split_message(text, max_chars) = messages

\* both variants cut a text whose first line is too long for one chunk, so
\* that the candidate is built on an empty accumulator, into three chunks or
\* more
C25_Witness ==
    /\ spc = "returned"
    /\ Len(split(text, NL)[1]) > max_chars
    /\ Len(messages) >= 3
    /\ \E k \in 1..Len(messages) : \E j \in 1..Len(messages[k]) : messages[k][j] = NL
    /\ commands_split_message(text, max_chars) = messages

\* ------------------------------------------------ resolver properties
\* the host parameter after trimming
TrimmedHost == strip(HostParam(script, environ))

\* the trust rule: non-empty, and two characters or more or no space in MESSAGE
Trusted(h, message) == h # <<>> /\ (Len(h) >= 2 \/ ~contains(message, SP))

\* the part of a trigger pattern before its first '{', trimmed; the whole
\* pattern when it has none
TriggerPrefix(t) == IF contains(t, "{") THEN strip(split(t, "{")[1]) ELSE t

\* MESSAGE starts, in any letter-case, with the prefix of TRIGGER
TriggerMatches(env) ==
    LET msg == strip(env.MESSAGE)
        t == strip(env.TRIGGER)
    IN  t # <<>> /\ msg # <<>> /\ startswith(lower(msg), lower(TriggerPrefix(t)))

FixedPrefixes == <<S_ask_, S_ai_, S_chat_>>

\* C13: a host parameter that is non-empty after trimming and has two
\* characters or more, or comes with a MESSAGE without a space, is the
\* resolved argument, whatever MESSAGE and TRIGGER hold (ai.py, sunrise.py).
C13_HostParamTrusted ==
    (pc = "dispatch" /\ Trusted(TrimmedHost, environ.MESSAGE)) =>
        argument = TrimmedHost

\* C14: with an empty host parameter and the trigger '<prefix> {name}', the
\* messages '<prefix> a', '<prefix> "a"' and "<prefix> 'a'", the prefix in
\* any letter-case, all resolve to a.
C14_ExtractionRoundTrip ==
    (pc = "dispatch" /\ HostParam(script, environ) = <<>>) =>
        \A pt \in {<<W_ask, T_ask_question>>, <<W_sun, T_sun_location>>} :
            \A a \in UserArgs, w \in {"bare", "double", "single"} :
                (/\ environ.TRIGGER = pt[2]
                 /\ Len(environ.MESSAGE) > Len(pt[1])
                 /\ lower(SubSeq(environ.MESSAGE, 1, Len(pt[1]))) = pt[1]
                 /\ from(environ.MESSAGE, Len(pt[1])) = <<SP>> \o Typed(a, w))
                    => argument = a

\* a quoted two-word argument after an upper-case command word was recovered
C14_Witness ==
    /\ pc = "dispatch"
    /\ HostParam(script, environ) = <<>>
    /\ environ.TRIGGER = T_sun_location
    /\ environ.MESSAGE = <<"S", "U", "N", SP, QUOTE, "h", "i", SP, "y", "o", "u", QUOTE>>
    /\ argument = <<"h", "i", SP, "y", "o", "u">>

\* C15: when the host parameter is not trusted, TRIGGER is set and MESSAGE
\* does not start with its prefix, ai.py returns what follows the first of
\* 'ask ', 'ai ', 'chat ' that MESSAGE starts with.
C15_LastResortFallback ==
    (/\ pc = "dispatch"
     /\ script = "ai"
     /\ ~Trusted(TrimmedHost, environ.MESSAGE)
     /\ strip(environ.TRIGGER) # <<>>
     /\ strip(environ.MESSAGE) # <<>>
     /\ ~TriggerMatches(environ)) =>
        \A k \in 1..Len(FixedPrefixes) :
            (/\ startswith(lower(strip(environ.MESSAGE)), FixedPrefixes[k])
             /\ \A j \in 1..(k - 1) :
                   ~startswith(lower(strip(environ.MESSAGE)), FixedPrefixes[j]))
                => argument = extract(strip(environ.MESSAGE), FixedPrefixes[k])

\* C16: when the host parameter is not trusted and TRIGGER has no
\* placeholder, the whole TRIGGER is the prefix that is stripped from
\* MESSAGE, followed by trimming and quote removal (ai.py, sunrise.py).
C16_LiteralTriggerPrefix ==
    (/\ pc = "dispatch"
     /\ ~Trusted(TrimmedHost, environ.MESSAGE)
     /\ ~contains(environ.TRIGGER, "{")
     /\ TriggerMatches(environ)) =>
        argument = extract(strip(environ.MESSAGE), strip(environ.TRIGGER))

\* the host parameter is one character, MESSAGE has a space, and MESSAGE
\* starts neither with the prefix of TRIGGER nor with a fixed prefix
Unmatched ==
    /\ Len(TrimmedHost) = 1
    /\ contains(environ.MESSAGE, SP)
    /\ ~TriggerMatches(environ)
    /\ \A k \in 1..Len(FixedPrefixes) :
          ~startswith(lower(strip(environ.MESSAGE)), FixedPrefixes[k])

\* C17: a one-character host parameter that is not trusted and that no
\* prefix replaces resolves to the empty string.
C17_UnmatchedGivesEmpty ==
    (pc = "dispatch" /\ Unmatched) => argument = <<>>

\* C17 as amended: a one-character host parameter that is not trusted and
\* that no prefix replaces stays the resolved argument.
C17_UnmatchedKeepsHostParam ==
    (pc = "dispatch" /\ Unmatched) => argument = TrimmedHost

\* ai.py kept the parameter 'x' although MESSAGE has a space and no
\* TRIGGER is set
C17_Witness ==
    /\ pc = "dispatch"
    /\ script = "ai"
    /\ Unmatched
    /\ strip(environ.TRIGGER) = <<>>
    /\ argument = <<"x">>

\* ---------------------------------------------- dispatcher properties
\* main() has passed the dispatch decision without an exception
Dispatched ==
    /\ pc \notin {"idle", "resolve", "dispatch"}
    /\ raised \cap {"resolve", "dispatch"} = {}

\* the text a help request is answered with, passed through split_message
HelpReply(t) ==
    LET msgs == split_message(t, 199)
    IN  IF Len(msgs) = 1 THEN Str(msgs[1]) ELSE List(msgs)

\* C18: in ai.py and sunrise.py the resolved argument alone selects one of
\* three branches: empty gives the family's usage message, 'help', 'h' or
\* '?' in any letter-case gives the family's help text through
\* split_message, anything else calls the content handler; the handler is
\* not called in the first two.
C18_DispatchBranch ==
    (script \in {"ai", "sunrise"} /\ Dispatched) =>
        /\ branch \in {"usage", "help", "ok", "error"}
        /\ argument = <<>> <=> branch = "usage"
        /\ (argument # <<>> /\ lower(argument) \in {S_help, S_h, S_qmark})
              <=> branch = "help"
        /\ branch = "usage" =>
              reply = Str(IF script = "ai" THEN AI_USAGE ELSE SUNRISE_USAGE)
        /\ branch = "help" =>
              reply = HelpReply(IF script = "ai" THEN AI_HELP_TEXT ELSE SUNRISE_HELP_TEXT)

\* 'Help' with a capital letter was answered with the help text of ai.py
C18_Witness ==
    /\ script = "ai"
    /\ Dispatched
    /\ argument = <<"H", "e", "l", "p">>
    /\ branch = "help"
    /\ reply = Str(AI_HELP_TEXT)

\* the line that opens a usage reminder
S_Usage == <<NL, "U", "s", "a", "g", "e", ":">>

\* C19: in ai.py and sunrise.py a handler error m is answered with
\* 'Error: m' followed by a usage reminder, sent as one response when it has
\* at most 199 characters and as the paginator's responses array otherwise.
C19_HandlerErrorReply ==
    (script \in {"ai", "sunrise"} /\ branch = "error" /\ pc = "t1_flush") =>
        /\ startswith(reply.v, ERROR_PREFIX)
        /\ \E i \in 1..Len(reply.v) : startswith(from(reply.v, i - 1), S_Usage)
        /\ stdout[Len(stdout)] =
              IF Len(reply.v) <= 199
              THEN [key |-> "response", value |-> reply.v]
              ELSE [key |-> "responses", value |-> split_message(reply.v, 199)]

\* ------------------------------------------ command listing properties
\* the chunks of the command body under the reduced budget
Body(commands) == commands_split_message(join(command_lines(commands), NL), 149)

S_Page == <<"P", "a", "g", "e", SP>>
S_AvailableCommands == <<"A", "v", "a", "i", "l", "a", "b", "l", "e", SP, "C", "o", "m", "m", "a", "n", "d", "s", ":", SP>>

\* 'Page i of n (Msg i/n)'
PageOf(i, n) ==
    S_Page \o str_int(i) \o HEADER_OF \o str_int(n)
        \o HEADER_MSG \o str_int(i) \o <<"/">> \o str_int(n) \o <<")">>

\* the number of final messages the i-th body chunk turns into
PieceCount(i, body) ==
    LET full_msg == S_AvailableCommands \o PageOf(i, Len(body)) \o <<NL>> \o body[i]
    IN  IF Len(full_msg) > 199 THEN Len(commands_split_message(full_msg, 199)) ELSE 1

\* the place in the final list of the message built from the i-th body chunk
RECURSIVE PositionOf(_, _)
PositionOf(i, body) ==
    IF i = 1 THEN 1 ELSE PositionOf(i - 1, body) + PieceCount(i - 1, body)

ListingMessages == IF listing.t = "list" THEN listing.v ELSE <<listing.v>>

\* C21: for every command registry, every message returned by
\* get_commands_list has length <= 199.
C21_Ceiling ==
    lpc = "returned" =>
        \A k \in 1..Len(ListingMessages) : Len(ListingMessages[k]) <= 199

\* C28: whenever get_commands_list returns a list, the total N printed in
\* every header equals the number of messages in the returned list, and the
\* k-th returned message carries header index k.
C28_NumberingMatchesList ==
    (lpc = "returned" /\ listing.t = "list") =>
        \A k \in 1..Len(listing.v) :
            startswith(listing.v[k],
                       S_AvailableCommands \o PageOf(k, Len(listing.v)))

\* C29: when the registry contains no listable command (it is empty or
\* holds only 'commands'/'command' entries), get_commands_list returns the
\* string 'No commands available.'.
C29_NoCommandsAvailable ==
    (lpc = "returned" /\ command_lines(registry) = <<>>) =>
        listing = Str(NO_COMMANDS)

\* ------------------------------------------- provider chain properties
\* the provider is one the chain may query: Ollama always, the others when
\* their API key is set
KeySet(p) ==
    \/ p = "ollama"
    \/ p = "openai" /\ ai_config.openai_key
    \/ p = "anthropic" /\ ai_config.anthropic_key

\* the provider may be queried and its query gives non-empty text
Yields(p) == KeySet(p) /\ Truthy(ai_replies[p])

\* the providers that may be queried among the first n of the order
RECURSIVE KeyedPrefix(_, _)
KeyedPrefix(order, n) ==
    IF n = 0 THEN <<>>
    ELSE KeyedPrefix(order, n - 1) \o (IF KeySet(order[n]) THEN <<order[n]>> ELSE <<>>)

\* what the claim says of a finished call of get_ai_response
ChainRule ==
    LET order == providers(ai_config.provider)
        unavailable == [error |-> TRUE, v |-> Str(AI_ERR_UNAVAILABLE)]
    IN  /\ order[1] = (IF ai_config.provider \in {"ollama", "openai", "anthropic"}
                       THEN ai_config.provider ELSE "ollama")
        /\ (\E i \in 1..Len(order) : Yields(order[i])) =>
              LET first == CHOOSE i \in 1..Len(order) :
                               Yields(order[i]) /\ \A j \in 1..(i - 1) : ~Yields(order[j])
              IN  /\ answer = [error |-> FALSE, v |-> ai_replies[order[first]]]
                  /\ queried = KeyedPrefix(order, first)
        /\ \A k \in 1..(Len(queried) - 1) : ~Truthy(ai_replies[queried[k]])
        /\ \A k \in 1..Len(queried) : KeySet(queried[k])
        /\ answer = unavailable <=>
              \A k \in 1..Len(queried) : ~Truthy(ai_replies[queried[k]])

\* C26: get_ai_response returns the text of the first provider, in the
\* order that starts with the configured AI_PROVIDER (ollama-first for an
\* unknown value), that yields a non-empty response; no provider is queried
\* after one has answered, OpenAI and Anthropic are queried only when their
\* API key is set, and the 'AI service unavailable' error is returned exactly
\* when no queried provider yields non-empty text.
C26_ProviderChain == apc = "returned" => ChainRule

\* C26 as amended: the same, for a question that is not empty or
\* whitespace-only.
C26_ProviderChainOfQuestion ==
    (apc = "returned" /\ strip(ai_question) # <<>>) => ChainRule

\* Anthropic is configured and keyed but answers nothing, OpenAI has no key
\* and is passed over, and Ollama, the last of the order, answers
C26_Witness ==
    /\ apc = "returned"
    /\ strip(ai_question) # <<>>
    /\ ai_config.provider = "anthropic"
    /\ ai_config.anthropic_key
    /\ ~ai_config.openai_key
    /\ ~Truthy(ai_replies.anthropic)
    /\ Truthy(ai_replies.openai)
    /\ queried = <<"anthropic", "ollama">>
    /\ answer = [error |-> FALSE, v |-> ai_replies.ollama]

\* ------------------------------------------------ geocoder properties
\* C27: when the geocoding service answers HTTP 429, geocode_location
\* waits and retries once: a single lookup issues at most two requests and
\* then returns coordinates or None, even if the service keeps answering 429.
C27_RetriesOnce ==
    /\ requests <= 2
    /\ (requests = 2 /\ gpc # "request") => gpc = "returned"

\* ------------------------------------------------- properties of main()
\* C4: every invocation of main() ends with process exit status 0,
\* whichever steps raised on the way (resolution, handler, pagination,
\* encoding, writing to stdout or stderr).
C4_ExitsZero ==
    /\ exit_status \in {-1, 0}
    /\ (pc = "done" <=> exit_status = 0)

\* C5: exactly one line is written to standard output on every path: never
\* a second one, and one by the time main() has ended.
C5_ExactlyOneLine ==
    /\ Len(stdout) <= 1
    /\ (pc = "done" => Len(stdout) = 1)

\* the only statements that raised are calls of json.dumps in the inner tiers
OnlyEncodingRaised == raised # {} /\ raised \subseteq {"t1_encode", "t2_encode"}

\* C6: when encoding the envelope raises, main() still writes one JSON
\* object with a response key: the 'Error: Failed to format response: ...'
\* envelope, or the fixed last-resort object when encoding that one raised
\* too; a tier is entered only after the tier before it raised.
C6_EncodingFallback ==
    /\ (pc = "done" /\ OnlyEncodingRaised) =>
          stdout = <<IF "t2_encode" \in raised
                     THEN [key |-> "response", value |-> SCRIPT_FAILED]
                     ELSE [key |-> "response", value |-> FORMAT_FAILED_PREFIX \o exc]>>
    /\ (pc \in {"t2_print", "t2_flush"} =>
          raised \cap {"t1_encode", "t1_print", "t1_flush", "t1_echo"} # {})
    /\ (pc \in {"t3_print", "t3_flush"} =>
          /\ raised \cap {"t1_encode", "t1_print", "t1_flush", "t1_echo"} # {}
          /\ raised \cap {"t2_encode", "t2_print", "t2_flush"} # {})

\* both encodings raised and the last-resort line was written
C6_Witness ==
    /\ pc = "done"
    /\ raised = {"t1_encode", "t2_encode"}
    /\ stdout = <<LastResort>>

\* a line written by the second tier
IsFormatFailedLine(line) ==
    line.key = "response" /\ startswith(line.value, FORMAT_FAILED_PREFIX)

\* C7: the second-tier envelope carries a description of the failure cut to
\* the transport limit of 199 characters, whatever the length of the
\* error's text.
C7_Tier2WithinLimit ==
    \A i \in 1..Len(stdout) :
        IsFormatFailedLine(stdout[i]) => Len(stdout[i].value) <= 199

\* C8: the outermost handler emits 'Error: ' + m when that has at most 195
\* characters and otherwise its first 192 characters followed by '...';
\* the emitted string never has more than 195 characters.
C8_OuterTruncation ==
    pc = "o1_flush" =>
        LET emitted == stdout[Len(stdout)].value
            full == ERROR_PREFIX \o exc
        IN  /\ stdout[Len(stdout)].key = "response"
            /\ Len(emitted) <= 195
            /\ Len(full) <= 195 => emitted = full
            /\ Len(full) > 195 => emitted = SubSeq(full, 1, 192) \o <<".", ".", ".">>

\* a message one character too long has been cut
C8_Witness ==
    /\ pc = "o1_flush"
    /\ Len(ERROR_PREFIX \o exc) = 196
    /\ Len(stdout[Len(stdout)].value) = 195

C10_NonEmptyPayload ==
    \A i \in 1..Len(stdout) :
        IF stdout[i].key = "responses"
        THEN \E j \in 1..Len(stdout[i].value) : stdout[i].value[j] # <<>>
        ELSE stdout[i].value # <<>>

\* the strings a line of stdout carries
LineStrings(line) == IF line.key = "responses" THEN line.value ELSE <<line.value>>

\* e occurs in s
Occurs(e, s) ==
    \/ e = <<>>
    \/ \E k \in 1..(Len(s) - Len(e) + 1) :
          s[k] = e[1] /\ SubSeq(s, k, k + Len(e) - 1) = e

C23_TestModeLeavesStdout ==
    (pc = "done" /\ raised \subseteq {"t1_echo", "o1_echo"}) =>
        stdout = <<Envelope(response)>>

\* C30: whenever main() emits an envelope with the responses key, the
\* array has at least two entries; whenever it emits the response key, the
\* value is a string and never a list.
C30_KeyMatchesShape ==
    \A i \in 1..Len(stdout) :
        IF stdout[i].key = "responses"
        THEN Len(stdout[i].value) >= 2
        ELSE \A k \in 1..Len(stdout[i].value) : stdout[i].value[k] \in STRING

====
